---- MODULE Spec2Model ----
(***************************************************************************)
(* Corridor profiler: the versioned profile store (profile_store.py), the  *)
(* profile record, its serialisation, its generation, its weekly update    *)
(* and the normalised score (corridor_profiler.py) and the profile         *)
(* validator (validators.py).                                              *)
(*                                                                         *)
(* Conventions of the model                                                *)
(*  - in the store and the validator amounts and velocities are integers   *)
(*    (the code only compares them there) and baseline_fraud_rate is in    *)
(*    per-mille;                                                           *)
(*  - a normalised score is a fixed-point number of 1/ScoreUnit, its       *)
(*    exponential a truncated series; a raised ZeroDivisionError is the    *)
(*    record ZeroDivision;                                                 *)
(*  - in profile generation and update a float is an exact fraction        *)
(*    [num, den] in lowest terms or the record NaN; only the square root   *)
(*    of std() is cut, to 1/StdUnit; where the rounding of the blend       *)
(*    matters (SpecFloatUpdate) a float is a binary floating-point number  *)
(*    with a significand of MantissaBits bits;                             *)
(*  - a corridor code is one path component, the name of its directory;    *)
(*  - the calls of the store are atomic in Spec and SpecLookup and taken   *)
(*    file operation by file operation in SpecOneCall and SpecRace;        *)
(*  - a version is the rank of its ISO-week string "YYYY-Www" in           *)
(*    lexicographic order (the strings have one width, so the order of the *)
(*    strings is the order of the ranks); rank 0 stands for the empty      *)
(*    string and is used by the validator only;                            *)
(*  - the clock counts ticks of 1/TicksPerSecond of a second; the archive  *)
(*    timestamp strftime('%Y%m%d_%H%M%S') keeps whole seconds only, and    *)
(*    several calls can happen within one tick;                            *)
(*  - None is the record Absent, a raised exception the record Raised.     *)
(***************************************************************************)
EXTENDS Integers, Sequences, FiniteSets, TLC

\* ------------------------------------------------------------------ bounds
MaxTime == 2
TicksPerSecond == 2
MaxOps == 4
MaxSteps == 2
MaxVersion == 2
MaxAmount == 2
MaxVelocity == 1
MaxScoreAmount == 3
MaxBatch == 2
MaxUpdates == 2
MaxYears == 6
MaxYearEdge == 4
MaxPeakBatch == 4

\* --------------------------------------------------------- program constants
MIN_TRANSACTION_COUNT == 100
MAX_FRAUD_RATE == 100
HIGH_MEDIAN_AMOUNT == 100000
HIGH_MEDIAN_VELOCITY == 50

Corridors == {"UK_NGN", "UK_PLN"}
Versions == 1..MaxVersion
StepsArgs == 0..MaxSteps

Absent == [absent |-> TRUE]
Raised == [raised |-> "IndexError"]

Min(a, b) == IF a <= b THEN a ELSE b
Max(a, b) == IF a >= b THEN a ELSE b

\* ------------------------------------------------------------ CorridorProfile
BaseProfile ==
  [corridor_code |-> "UK_NGN",
   median_amount |-> 350, mean_amount |-> 420, std_amount |-> 180,
   p25_amount |-> 200, p75_amount |-> 500, p95_amount |-> 900,
   p99_amount |-> 1500, min_amount |-> 10, max_amount |-> 2000,
   median_velocity_24h |-> 1, mean_velocity_24h |-> 2, p95_velocity_24h |-> 4,
   peak_hours |-> <<9, 10, 17>>, peak_days |-> <<0, 4>>,
   transaction_count |-> 1500, unique_senders |-> 700,
   unique_beneficiaries |-> 650,
   baseline_fraud_rate |-> 20,
   profile_date |-> 0, version |-> 1, data_window_days |-> 28]

to_dict(p) ==
  [corridor_code |-> p.corridor_code,
   amount_distribution |->
     [median |-> p.median_amount, mean |-> p.mean_amount, std |-> p.std_amount,
      p25 |-> p.p25_amount, p75 |-> p.p75_amount, p95 |-> p.p95_amount,
      p99 |-> p.p99_amount, min |-> p.min_amount, max |-> p.max_amount],
   velocity_distribution |->
     [median_24h |-> p.median_velocity_24h, mean_24h |-> p.mean_velocity_24h,
      p95_24h |-> p.p95_velocity_24h],
   temporal_patterns |->
     [peak_hours |-> p.peak_hours, peak_days |-> p.peak_days],
   population |->
     [transaction_count |-> p.transaction_count,
      unique_senders |-> p.unique_senders,
      unique_beneficiaries |-> p.unique_beneficiaries],
   risk |-> [baseline_fraud_rate |-> p.baseline_fraud_rate],
   metadata |->
     [profile_date |-> p.profile_date, version |-> p.version,
      data_window_days |-> p.data_window_days]]

\* a deserialiser that reads the median from the p95 slot
from_dict_swapped(data) ==
  [corridor_code |-> data.corridor_code,
   median_amount |-> data.amount_distribution.p95,
   mean_amount |-> data.amount_distribution.mean,
   std_amount |-> data.amount_distribution.std,
   p25_amount |-> data.amount_distribution.p25,
   p75_amount |-> data.amount_distribution.p75,
   p95_amount |-> data.amount_distribution.median,
   p99_amount |-> data.amount_distribution.p99,
   min_amount |-> data.amount_distribution.min,
   max_amount |-> data.amount_distribution.max,
   median_velocity_24h |-> data.velocity_distribution.median_24h,
   mean_velocity_24h |-> data.velocity_distribution.mean_24h,
   p95_velocity_24h |-> data.velocity_distribution.p95_24h,
   peak_hours |-> data.temporal_patterns.peak_hours,
   peak_days |-> data.temporal_patterns.peak_days,
   transaction_count |-> data.population.transaction_count,
   unique_senders |-> data.population.unique_senders,
   unique_beneficiaries |-> data.population.unique_beneficiaries,
   baseline_fraud_rate |-> data.risk.baseline_fraud_rate,
   profile_date |-> data.metadata.profile_date,
   version |-> data.metadata.version,
   data_window_days |-> data.metadata.data_window_days]

from_dict(data) ==
  [corridor_code |-> data.corridor_code,
   median_amount |-> data.amount_distribution.median,
   mean_amount |-> data.amount_distribution.mean,
   std_amount |-> data.amount_distribution.std,
   p25_amount |-> data.amount_distribution.p25,
   p75_amount |-> data.amount_distribution.p75,
   p95_amount |-> data.amount_distribution.p95,
   p99_amount |-> data.amount_distribution.p99,
   min_amount |-> data.amount_distribution.min,
   max_amount |-> data.amount_distribution.max,
   median_velocity_24h |-> data.velocity_distribution.median_24h,
   mean_velocity_24h |-> data.velocity_distribution.mean_24h,
   p95_velocity_24h |-> data.velocity_distribution.p95_24h,
   peak_hours |-> data.temporal_patterns.peak_hours,
   peak_days |-> data.temporal_patterns.peak_days,
   transaction_count |-> data.population.transaction_count,
   unique_senders |-> data.population.unique_senders,
   unique_beneficiaries |-> data.population.unique_beneficiaries,
   baseline_fraud_rate |-> data.risk.baseline_fraud_rate,
   profile_date |-> data.metadata.profile_date,
   version |-> data.metadata.version,
   data_window_days |-> data.metadata.data_window_days]

\* ---------------------------------------------------------- ProfileValidator
\* the strings str.strip() leaves empty
BlankStrings == {"", " ", "  "}

When(cond, message) == IF cond THEN <<message>> ELSE <<>>

\* corridor_code and version are the textual required fields; a version of
\* rank 0 is the empty string.  The numeric fields are never None here.
validate_required_fields(profile) ==
  When(profile.corridor_code \in BlankStrings, "corridor_code is empty")
    \o When(profile.version = 0, "version is empty")

bound_errors(profile) ==
  When(profile.median_amount <= 0, "Median amount must be positive")
    \o When(profile.median_velocity_24h < 0, "Velocity cannot be negative")
    \o When(profile.baseline_fraud_rate < 0, "Fraud rate cannot be negative")

bound_warnings(profile) ==
  When(profile.median_amount > HIGH_MEDIAN_AMOUNT, "Unusually high median amount")
    \o When(profile.median_velocity_24h > HIGH_MEDIAN_VELOCITY,
            "Unusually high median velocity")
    \o When(profile.baseline_fraud_rate > MAX_FRAUD_RATE,
            "Unusually high fraud rate")
    \o When(profile.transaction_count < MIN_TRANSACTION_COUNT,
            "Low transaction count")

validate_consistency(profile) ==
  When(~(profile.p25_amount <= profile.median_amount
           /\ profile.median_amount <= profile.p75_amount),
       "Amount percentiles out of order")
    \o When(~(profile.median_amount <= profile.p95_amount
                /\ profile.p95_amount <= profile.p99_amount),
            "Upper percentiles out of order")
    \o When(profile.min_amount > profile.median_amount,
            "Minimum amount exceeds median")
    \o When(profile.max_amount < profile.p99_amount,
            "Maximum amount less than p99")
    \o When(profile.median_velocity_24h > profile.p95_velocity_24h,
            "Median velocity exceeds p95 velocity")

check_suspicious_values(profile) ==
  When(profile.median_amount \in {100, 200, 500, 1000},
       "Suspiciously round median amount")
    \o When(profile.std_amount = 0, "Zero standard deviation")
    \o (IF profile.transaction_count > 0 /\ profile.unique_senders > 0
        THEN IF profile.transaction_count < profile.unique_senders
             THEN <<"More unique senders than transactions">>
             ELSE When(profile.transaction_count > 100 * profile.unique_senders,
                       "Very high transactions per sender ratio")
        ELSE <<>>)

ValidationResult(is_valid, errors, warnings) ==
  [is_valid |-> is_valid, errors |-> errors, warnings |-> warnings]

validate_profile(profile) ==
  LET errors == validate_required_fields(profile) \o bound_errors(profile)
                  \o validate_consistency(profile)
      warnings == bound_warnings(profile) \o check_suspicious_values(profile)
  IN ValidationResult(Len(errors) = 0, errors, warnings)

MAX_WEEKLY_DRIFT_PERCENT == 25

Abs(x) == IF x < 0 THEN -x ELSE x

\* a threshold that is reached, not exceeded
drift_reaches(old_value, new_value) ==
  IF old_value > 0
  THEN Abs(new_value - old_value) * 100 >= MAX_WEEKLY_DRIFT_PERCENT * old_value
  ELSE Abs(new_value - old_value) * 100 <= MAX_WEEKLY_DRIFT_PERCENT * old_value

\* abs(new_value - old_value) / old_value * 100 > MAX_WEEKLY_DRIFT_PERCENT for
\* old_value # 0, in exact arithmetic: both sides are multiplied by old_value,
\* which turns the comparison round when old_value is negative
drift_exceeds(old_value, new_value) ==
  IF old_value > 0
  THEN Abs(new_value - old_value) * 100 > MAX_WEEKLY_DRIFT_PERCENT * old_value
  ELSE Abs(new_value - old_value) * 100 < MAX_WEEKLY_DRIFT_PERCENT * old_value

\* metrics_to_check, in the order of the code, with the head of the warning
metrics_to_check(old_profile, new_profile) ==
  <<[warning |-> "High drift in median_amount",
     old_value |-> old_profile.median_amount,
     new_value |-> new_profile.median_amount],
    [warning |-> "High drift in p95_amount",
     old_value |-> old_profile.p95_amount,
     new_value |-> new_profile.p95_amount],
    [warning |-> "High drift in median_velocity_24h",
     old_value |-> old_profile.median_velocity_24h,
     new_value |-> new_profile.median_velocity_24h],
    [warning |-> "High drift in baseline_fraud_rate",
     old_value |-> old_profile.baseline_fraud_rate,
     new_value |-> new_profile.baseline_fraud_rate]>>

RECURSIVE drift_warnings(_)
drift_warnings(metrics) ==
  IF metrics = <<>> THEN <<>>
  ELSE LET m == Head(metrics)
       IN When(m.old_value # 0 /\ drift_exceeds(m.old_value, m.new_value),
               m.warning)
            \o drift_warnings(Tail(metrics))

check_drift(old_profile, new_profile) ==
  drift_warnings(metrics_to_check(old_profile, new_profile))

\* an update check that forgets to compare the corridor codes
validate_update_any_corridor(old_profile, new_profile) ==
  LET base_validation == validate_profile(new_profile)
  IN ValidationResult(Len(base_validation.errors) = 0, base_validation.errors,
                      base_validation.warnings
                        \o check_drift(old_profile, new_profile))

\* an update check that goes on to the drift check after a corridor mismatch
validate_update_no_return(old_profile, new_profile) ==
  LET base_validation == validate_profile(new_profile)
      mismatch == old_profile.corridor_code # new_profile.corridor_code
      errors == base_validation.errors
                  \o When(mismatch, "Corridor code mismatch")
  IN ValidationResult(Len(errors) = 0, errors,
                      base_validation.warnings
                        \o check_drift(old_profile, new_profile))

validate_update(old_profile, new_profile) ==
  LET base_validation == validate_profile(new_profile)
      errors == base_validation.errors
      warnings == base_validation.warnings
  IN IF old_profile.corridor_code # new_profile.corridor_code
     THEN ValidationResult(FALSE, Append(errors, "Corridor code mismatch"),
                           warnings)
     ELSE ValidationResult(Len(errors) = 0, errors,
                           warnings \o check_drift(old_profile, new_profile))

\* ------------------------------------------------- calculate_normalised_score
\* Scores are fixed-point numbers: ScoreUnit stands for 1.0, and a quotient is
\* cut to a whole number of units.  A raised exception is a record.
ScoreUnit == 10000
Scored(n) == [score |-> n]
ZeroDivision == [raised |-> "ZeroDivisionError"]
UnknownFeature == [raised |-> "ValueError"]

\* the terms x^k / k! of the exponential series from the k-th on, x = num / den
\* with num >= 0 and den > 0
RECURSIVE ExpSeries(_, _, _, _)
ExpSeries(num, den, k, term) ==
  IF term = 0 THEN 0
  ELSE term + ExpSeries(num, den, k + 1, (term * num) \div (den * (k + 1)))

\* np.exp(num / den), den # 0
np_exp(num, den) ==
  IF num = 0 \/ (num > 0) = (den > 0)
  THEN ExpSeries(Abs(num), Abs(den), 0, ScoreUnit)
  ELSE (ScoreUnit * ScoreUnit) \div ExpSeries(Abs(num), Abs(den), 0, ScoreUnit)

\* 0.5 * (value - median) / (p95 - median)
lower_ramp(value, median, p95) ==
  IF p95 = median THEN ZeroDivision
  ELSE Scored(((ScoreUnit \div 2) * (value - median)) \div (p95 - median))

\* 0.5 + 0.4 * (value - p95) / (p99 - p95)
upper_ramp(value, p95, p99) ==
  IF p99 = p95 THEN ZeroDivision
  ELSE Scored(ScoreUnit \div 2
                + (4 * (ScoreUnit \div 10) * (value - p95)) \div (p99 - p95))

\* min(0.9 + 0.1 * (1 - np.exp(-excess_ratio)), 1.0),
\* excess_ratio = (value - p99) / p99
asymptote(value, p99) ==
  IF p99 = 0 THEN ZeroDivision
  ELSE Scored(Min(9 * (ScoreUnit \div 10)
                    + (ScoreUnit - np_exp(p99 - value, p99)) \div 10,
                  ScoreUnit))

\* a first test that lets a value equal to the median through to the ramp
normalised_score_strict(value, median, p95, p99) ==
  IF value < median THEN Scored(0)
  ELSE IF value <= p95 THEN lower_ramp(value, median, p95)
  ELSE IF value <= p99 THEN upper_ramp(value, p95, p99)
  ELSE asymptote(value, p99)

normalised_score(value, median, p95, p99) ==
  IF value <= median THEN Scored(0)
  ELSE IF value <= p95 THEN lower_ramp(value, median, p95)
  ELSE IF value <= p99 THEN upper_ramp(value, p95, p99)
  ELSE asymptote(value, p99)

\* for 'velocity' p99 = p95 * 1.5: every quantity is doubled, which leaves the
\* comparisons and the quotients as they are
calculate_normalised_score(value, profile, feature) ==
  IF feature = "amount"
  THEN normalised_score(value, profile.median_amount, profile.p95_amount,
                        profile.p99_amount)
  ELSE IF feature = "velocity"
  THEN normalised_score(2 * value, 2 * profile.median_velocity_24h,
                        2 * profile.p95_velocity_24h,
                        3 * profile.p95_velocity_24h)
  ELSE UnknownFeature

\* ---------------------------------------------------------- CorridorProfiler
\* The statistics of the profiler are exact fractions [num, den] in lowest
\* terms with den > 0; float('nan') is the record NaN.  Only the standard
\* deviation is rounded: its square root is cut to 1/StdUnit.
DEFAULT_WINDOW_DAYS == 28
StdUnit == 100

RECURSIVE GCD(_, _)
GCD(a, b) == IF b = 0 THEN a ELSE GCD(b, a % b)

NaN == [nan |-> TRUE]
IsNaN(x) == x = NaN

\* num / den, den # 0
Rat(num, den) ==
  LET sign == IF den < 0 THEN -1 ELSE 1
      g == GCD(Abs(num), Abs(den))
  IN [num |-> (sign * num) \div g, den |-> (sign * den) \div g]

Float(k) == [num |-> k, den |-> 1]

Add(x, y) ==
  IF IsNaN(x) \/ IsNaN(y) THEN NaN
  ELSE LET g == GCD(x.den, y.den)
       IN Rat(x.num * (y.den \div g) + y.num * (x.den \div g),
              (x.den \div g) * y.den)

Mul(x, y) ==
  IF IsNaN(x) \/ IsNaN(y) THEN NaN
  ELSE LET g1 == GCD(Abs(x.num), y.den)
           g2 == GCD(Abs(y.num), x.den)
       IN Rat((x.num \div g1) * (y.num \div g2),
              (x.den \div g2) * (y.den \div g1))

Sub(x, y) == Add(x, Mul(Float(-1), y))

\* x < y on floats: False when either is NaN
Less(x, y) ==
  ~IsNaN(x) /\ ~IsNaN(y) /\ x.num * y.den < y.num * x.den

\* Python's min(a, b) and max(a, b): the first argument unless the second
\* is strictly smaller (larger)
PyMin(a, b) == IF Less(b, a) THEN b ELSE a
PyMax(a, b) == IF Less(a, b) THEN b ELSE a

\* Binary floating point.  A Python float has a significand of 53 bits; the
\* model keeps MantissaBits of them and rounds to nearest, ties to even, as
\* IEEE 754 does.  0.3 has a binary expansion of period 4, so a significand
\* of 9 = 53 - 4 * 11 bits cuts 0.3 and 1 - 0.3 at the same place of the period
\* as a double does.  Exponents are not bounded.
MantissaBits == 9

\* the integer nearest to num / den >= 0, the even one of two equally near
RoundHalfEven(num, den) ==
  LET q == num \div den
      r == num % den
  IN IF 2 * r > den \/ (2 * r = den /\ q % 2 = 1) THEN q + 1 ELSE q

\* sign * num / den * 2^e rounded to a float: the fraction is scaled until
\* 2^(MantissaBits - 1) <= num / den < 2^MantissaBits, then rounded to an integer
RECURSIVE RoundScaled(_, _, _, _)
RoundScaled(sign, num, den, e) ==
  IF num < den * 2^(MantissaBits - 1) THEN RoundScaled(sign, 2 * num, den, e - 1)
  ELSE IF num >= den * 2^MantissaBits THEN RoundScaled(sign, num, 2 * den, e + 1)
  ELSE IF e >= 0 THEN Rat(sign * RoundHalfEven(num, den) * 2^e, 1)
  ELSE Rat(sign * RoundHalfEven(num, den), 2^(-e))

\* the float nearest to the real number x
fl(x) ==
  IF IsNaN(x) THEN NaN
  ELSE IF x.num = 0 THEN x
  ELSE RoundScaled(IF x.num < 0 THEN -1 ELSE 1, Abs(x.num), x.den, 0)

\* the largest r with r * r <= n, n >= 0, searched between lo and hi
RECURSIVE SqrtBetween(_, _, _)
SqrtBetween(n, lo, hi) ==
  IF lo >= hi THEN lo
  ELSE LET mid == (lo + hi + 1) \div 2
       IN IF mid * mid <= n THEN SqrtBetween(n, mid, hi)
          ELSE SqrtBetween(n, lo, mid - 1)

\* the square root of a fraction x >= 0, cut to 1/StdUnit
Sqrt(x) ==
  IF IsNaN(x) THEN NaN
  ELSE LET n == (x.num * StdUnit * StdUnit) \div x.den
       IN Rat(SqrtBetween(n, 0, Min(n, 40000)), StdUnit)

RECURSIVE SumSeq(_)
SumSeq(seq) == IF seq = <<>> THEN 0 ELSE Head(seq) + SumSeq(Tail(seq))

\* the numbers of seq in ascending order
Ascending(seq) == SortSeq(seq, LAMBDA a, b : a < b)

\* the numbers of a set in ascending order: sorted(...)
RECURSIVE SortSet(_)
SortSet(S) ==
  IF S = {} THEN <<>>
  ELSE LET least == CHOOSE x \in S : \A y \in S : x <= y
       IN <<least>> \o SortSet(S \ {least})

\* Series.quantile(qnum / qden) with linear interpolation between the two
\* neighbouring order statistics; NaN for an empty series
Quantile(values, qnum, qden) ==
  IF values = <<>> THEN NaN
  ELSE LET sorted == Ascending(values)
           pos == qnum * (Len(values) - 1)
           lo == pos \div qden + 1
           rest == pos % qden
       IN IF rest = 0 THEN Float(sorted[lo])
          ELSE Rat(sorted[lo] * qden + (sorted[lo + 1] - sorted[lo]) * rest, qden)

Median(values) == Quantile(values, 1, 2)

Mean(values) ==
  IF values = <<>> THEN NaN ELSE Rat(SumSeq(values), Len(values))

\* Series.std(): the sample standard deviation (ddof = 1), NaN below two values
Std(values) ==
  IF Len(values) < 2 THEN NaN
  ELSE LET n == Len(values)
           total == SumSeq(values)
           \* sum of (n * x - total)^2 = n^2 * sum of (x - mean)^2
           squares == SumSeq([i \in 1..n |->
                                (n * values[i] - total) * (n * values[i] - total)])
       IN Sqrt(Rat(squares, n * n * (n - 1)))

\* a filter that keeps every value

\* values[values <= values.quantile(OUTLIER_PERCENTILE / 100)], 99.5 / 100
filter_outliers(values) ==
  LET upper_bound == Quantile(values, 995, 1000)
  IN SelectSeq(values, LAMBDA v : ~Less(upper_bound, Float(v))
                                   /\ ~IsNaN(upper_bound))

calculate_amount_statistics(amounts) ==
  [median_amount |-> Median(amounts),
   mean_amount |-> Mean(amounts),
   std_amount |-> Std(amounts),
   p25_amount |-> Quantile(amounts, 25, 100),
   p75_amount |-> Quantile(amounts, 75, 100),
   p95_amount |-> Quantile(amounts, 95, 100),
   p99_amount |-> Quantile(amounts, 99, 100),
   min_amount |-> IF amounts = <<>> THEN NaN ELSE Float(Ascending(amounts)[1]),
   max_amount |-> IF amounts = <<>> THEN NaN
                  ELSE Float(Ascending(amounts)[Len(amounts)])]

\* the columns the rows are grouped by
Column(transactions, name) ==
  [i \in 1..Len(transactions) |->
     CASE name = "sender_date" ->
            <<transactions[i].sender_id, transactions[i].timestamp.day>>
       [] name = "hour" -> transactions[i].timestamp.hour
       \* dt.dayofweek, Monday = 0; day 0 of the model is a Monday
       [] name = "day" -> transactions[i].timestamp.day % 7]

KeysOf(column) == {column[i] : i \in 1..Len(column)}

CountFor(column, k) == Cardinality({i \in 1..Len(column) : column[i] = k})

\* value_counts / groupby(...).size(): the sizes of the groups of rows with
\* one key, as a sequence in some order
RECURSIVE GroupSizes(_, _)
GroupSizes(column, keys) ==
  IF keys = {} THEN <<>>
  ELSE LET k == CHOOSE k \in keys : TRUE
       IN <<CountFor(column, k)>> \o GroupSizes(column, keys \ {k})

calculate_velocity_statistics(transactions) ==
  LET dates == Column(transactions, "sender_date")
      daily_counts == GroupSizes(dates, KeysOf(dates))
  IN [median_velocity_24h |-> Median(daily_counts),
      mean_velocity_24h |-> Mean(daily_counts),
      p95_velocity_24h |-> Quantile(daily_counts, 95, 100)]

\* a comparison that also takes a count equal to the mean
at_or_above_mean(count, mean) == ~Less(Float(count), mean)

\* counts[counts > counts.mean()]: the test on one count
above_mean(count, mean) == Less(mean, Float(count))

\* the keys whose count is above the mean count of the keys present, sorted
Peaks(column) ==
  LET keys == KeysOf(column)
      mean == Mean(GroupSizes(column, keys))
  IN SortSet({k \in keys : above_mean(CountFor(column, k), mean)})

calculate_temporal_patterns(transactions) ==
  [peak_hours |-> Peaks(Column(transactions, "hour")),
   peak_days |-> Peaks(Column(transactions, "day"))]

calculate_population_statistics(transactions) ==
  [transaction_count |-> Len(transactions),
   unique_senders |->
     Cardinality({transactions[i].sender_id : i \in 1..Len(transactions)}),
   unique_beneficiaries |->
     Cardinality({transactions[i].beneficiary_id : i \in 1..Len(transactions)})]

\* the argument fraud_labels: None, or a series of booleans
NoLabels == [given |-> FALSE, labels |-> <<>>]
Labels(series) == [given |-> TRUE, labels |-> series]

\* fraud_labels.mean() of a series of booleans, 0.0 without labels
baseline_rate(fraud_labels) ==
  IF ~fraud_labels.given THEN Float(0)
  ELSE IF fraud_labels.labels = <<>> THEN NaN
  ELSE Rat(Cardinality({i \in 1..Len(fraud_labels.labels) :
                         fraud_labels.labels[i]}),
           Len(fraud_labels.labels))

\* the calendar: a date is a year and a day of the year, 1 for 1 January
EpochYear == 2020
\* 1 January 2020 is a Wednesday; Monday is 0
EpochWeekday == 2

IsLeap(year) == year % 4 = 0 /\ (year % 100 # 0 \/ year % 400 = 0)
DaysInYear(year) == IF IsLeap(year) THEN 366 ELSE 365

\* days from 1 January of EpochYear to 1 January of `year`
RECURSIVE YearStart(_)
YearStart(year) ==
  IF year = EpochYear THEN 0
  ELSE IF year > EpochYear THEN YearStart(year - 1) + DaysInYear(year - 1)
  ELSE YearStart(year + 1) - DaysInYear(year)

Date(year, yday) == [year |-> year, yday |-> yday]
Ordinal(date) == YearStart(date.year) + date.yday - 1
Weekday(ordinal) == (ordinal + EpochWeekday + 7 * 53) % 7

\* the Monday that starts ISO week 1 of `year`: the week with its Thursday
iso_week1_monday(year) ==
  LET firstday == YearStart(year)
      firstweekday == Weekday(firstday)
      week1monday == firstday - firstweekday
  IN IF firstweekday > 3 THEN week1monday + 7 ELSE week1monday

\* date.isocalendar(): the ISO year and the ISO week of a date
isocalendar(date) ==
  LET today == Ordinal(date)
      week == (today - iso_week1_monday(date.year) + 7 * 53) \div 7 - 53
  IN IF week < 0
     THEN [year |-> date.year - 1,
           week |-> (today - iso_week1_monday(date.year - 1)) \div 7 + 1]
     ELSE IF week >= 52 /\ today >= iso_week1_monday(date.year + 1)
     THEN [year |-> date.year + 1, week |-> 1]
     ELSE [year |-> date.year, week |-> week + 1]

\* f"{now.year}-W{now.isocalendar()[1]:02d}": the calendar year and the ISO
\* week; both have a fixed width, so the string is compared as this pair
version_string(date) == <<date.year, isocalendar(date).week>>

\* str <= str of two versions
VersionLessEq(a, b) == a[1] < b[1] \/ (a[1] = b[1] /\ a[2] <= b[2])

\* f"{now.year}-W{now.isocalendar()[1]:02d}" as a rank: one more per week
\* of 7 * 86400 seconds since the clock started; the clock of the model runs
\* for less than a week
iso_week_version(t) == 1 + t \div (TicksPerSecond * 7 * 86400)

amount_column(transactions) ==
  [i \in 1..Len(transactions) |-> transactions[i].amount]

\* generate_profile called at instant t by a profiler with window_days
generate_profile(transactions, corridor_code, fraud_labels, t, window_days) ==
  LET amounts == filter_outliers(amount_column(transactions))
      amount_stats == calculate_amount_statistics(amounts)
      velocity_stats == calculate_velocity_statistics(transactions)
      temporal_patterns == calculate_temporal_patterns(transactions)
      population_stats == calculate_population_statistics(transactions)
  IN [corridor_code |-> corridor_code,
      median_amount |-> amount_stats.median_amount,
      mean_amount |-> amount_stats.mean_amount,
      std_amount |-> amount_stats.std_amount,
      p25_amount |-> amount_stats.p25_amount,
      p75_amount |-> amount_stats.p75_amount,
      p95_amount |-> amount_stats.p95_amount,
      p99_amount |-> amount_stats.p99_amount,
      min_amount |-> amount_stats.min_amount,
      max_amount |-> amount_stats.max_amount,
      median_velocity_24h |-> velocity_stats.median_velocity_24h,
      mean_velocity_24h |-> velocity_stats.mean_velocity_24h,
      p95_velocity_24h |-> velocity_stats.p95_velocity_24h,
      peak_hours |-> temporal_patterns.peak_hours,
      peak_days |-> temporal_patterns.peak_days,
      transaction_count |-> population_stats.transaction_count,
      unique_senders |-> population_stats.unique_senders,
      unique_beneficiaries |-> population_stats.unique_beneficiaries,
      baseline_fraud_rate |-> baseline_rate(fraud_labels),
      profile_date |-> t,
      version |-> iso_week_version(t),
      data_window_days |-> window_days]

\* a blend with the weights the wrong way round
blend_swapped(old_value, new_value, blend_factor) ==
  Add(Mul(blend_factor, old_value),
      Mul(Sub(Float(1), blend_factor), new_value))

\* (1 - blend_factor) * old_value + blend_factor * new_value
blend(old_value, new_value, blend_factor) ==
  Add(Mul(Sub(Float(1), blend_factor), old_value),
      Mul(blend_factor, new_value))

\* the same expression as the floats evaluate it: the difference, the two
\* products and the sum are each rounded to a float
float_blend(old_value, new_value, blend_factor) ==
  fl(Add(fl(Mul(fl(Sub(Float(1), blend_factor)), old_value)),
         fl(Mul(blend_factor, new_value))))

\* an upper bound taken from the fresh profile alone
widened_max_new_only(old_value, new_value) == new_value

\* min(existing.min_amount, new.min_amount), max(existing.max_amount, ...)
widened_min(old_value, new_value) == PyMin(old_value, new_value)
widened_max(old_value, new_value) == PyMax(old_value, new_value)

\* a count that is replaced, not accumulated
cumulative_count_new_only(existing_count, new_count) == new_count

\* existing_profile.transaction_count + new_profile.transaction_count
cumulative_count(existing_count, new_count) == existing_count + new_count

\* a population taken from the fresh profile
carried_over_from_new(existing_profile, new_profile) ==
  [corridor_code |-> existing_profile.corridor_code,
   unique_senders |-> new_profile.unique_senders,
   unique_beneficiaries |-> new_profile.unique_beneficiaries]

\* the fields update_profile copies from the existing profile
carried_over(existing_profile, new_profile) ==
  [corridor_code |-> existing_profile.corridor_code,
   unique_senders |-> existing_profile.unique_senders,
   unique_beneficiaries |-> existing_profile.unique_beneficiaries]

\* the profile update_profile builds from the existing and the fresh profile
blended_profile(existing_profile, new_profile, blend_factor, window_days) ==
  LET kept == carried_over(existing_profile, new_profile)
      Blended(old_value, new_value) == blend(old_value, new_value, blend_factor)
  IN [corridor_code |-> kept.corridor_code,
      median_amount |->
        Blended(existing_profile.median_amount, new_profile.median_amount),
      mean_amount |->
        Blended(existing_profile.mean_amount, new_profile.mean_amount),
      std_amount |->
        Blended(existing_profile.std_amount, new_profile.std_amount),
      p25_amount |->
        Blended(existing_profile.p25_amount, new_profile.p25_amount),
      p75_amount |->
        Blended(existing_profile.p75_amount, new_profile.p75_amount),
      p95_amount |->
        Blended(existing_profile.p95_amount, new_profile.p95_amount),
      p99_amount |->
        Blended(existing_profile.p99_amount, new_profile.p99_amount),
      min_amount |->
        widened_min(existing_profile.min_amount, new_profile.min_amount),
      max_amount |->
        widened_max(existing_profile.max_amount, new_profile.max_amount),
      median_velocity_24h |->
        Blended(existing_profile.median_velocity_24h,
                new_profile.median_velocity_24h),
      mean_velocity_24h |->
        Blended(existing_profile.mean_velocity_24h,
                new_profile.mean_velocity_24h),
      p95_velocity_24h |->
        Blended(existing_profile.p95_velocity_24h, new_profile.p95_velocity_24h),
      peak_hours |-> new_profile.peak_hours,
      peak_days |-> new_profile.peak_days,
      transaction_count |->
        cumulative_count(existing_profile.transaction_count,
                         new_profile.transaction_count),
      unique_senders |-> kept.unique_senders,
      unique_beneficiaries |-> kept.unique_beneficiaries,
      baseline_fraud_rate |->
        Blended(existing_profile.baseline_fraud_rate,
                new_profile.baseline_fraud_rate),
      profile_date |-> new_profile.profile_date,
      version |-> new_profile.version,
      data_window_days |-> window_days]

update_profile(new_transactions, existing_profile, fraud_labels, blend_factor, t, window_days) ==
  blended_profile(existing_profile,
                  generate_profile(new_transactions,
                                   existing_profile.corridor_code,
                                   fraud_labels, t, window_days),
                  blend_factor, window_days)

\* the profile update_profile builds, with the blends evaluated in floats; the
\* other fields are copied, compared or counted, which floats do exactly
float_blended_profile(existing_profile, new_profile, blend_factor, window_days) ==
  LET Blended(field) ==
        float_blend(existing_profile[field], new_profile[field], blend_factor)
  IN [blended_profile(existing_profile, new_profile, blend_factor, window_days)
        EXCEPT
     !.median_amount = Blended("median_amount"),
     !.mean_amount = Blended("mean_amount"),
     !.std_amount = Blended("std_amount"),
     !.p25_amount = Blended("p25_amount"),
     !.p75_amount = Blended("p75_amount"),
     !.p95_amount = Blended("p95_amount"),
     !.p99_amount = Blended("p99_amount"),
     !.median_velocity_24h = Blended("median_velocity_24h"),
     !.mean_velocity_24h = Blended("mean_velocity_24h"),
     !.p95_velocity_24h = Blended("p95_velocity_24h"),
     !.baseline_fraud_rate = Blended("baseline_fraud_rate")]

float_update_profile(new_transactions, existing_profile, fraud_labels, blend_factor, t, window_days) ==
  float_blended_profile(existing_profile,
                        generate_profile(new_transactions,
                                         existing_profile.corridor_code,
                                         fraud_labels, t, window_days),
                        blend_factor, window_days)

\* -------------------------------------------------------------- ProfileStore
VARIABLES
  now,        \* the wall clock, in ticks
  dirs,       \* corridor codes whose directory (with its history/) exists
  current,    \* corridor code -> content of current.json, or Absent
  history,    \* corridor code -> (file stem -> content of history/<stem>.json)
  ops,        \* number of store calls made so far
  calls,      \* corridor code -> the save and rollback calls made on it, in order
  archSeq,    \* corridor code -> (file stem -> the call that last wrote the file)
  replaced,   \* corridor code -> the profiles that were current and were replaced
  installed,  \* corridor code -> the profile last handed to save_profile, or Absent
  prev,       \* corridor code -> the profile that was current before `installed`
  ret,        \* the last call and what it returned
  vold,       \* validator: the previous profile of validate_update, or Absent
  vp,         \* validator: the profile under validation
  vres,       \* validator: the ValidationResult, or Absent
  sprofile,   \* scoring: the profile scored against
  sargs,      \* scoring: the feature and the two values to score, low <= high
  sscores,    \* scoring: their scores, or Absent
  uorig,      \* update: the profile the weekly updates started from
  uprofile,   \* update: the profile the caller holds now
  uheld,      \* update: the profile passed to the last update, as the call left it
  ulabelled,  \* update: whether the batches of this pipeline come with labels
  ucalls,     \* update: the update_profile calls made so far, in order
  tprofile,   \* round trip: the profile to serialise
  tdict,      \* round trip: to_dict's record, or Absent
  tback,      \* round trip: the profile from_dict made of it, or Absent
  gdates,     \* versions: two generation instants, the first not after the second
  gversions,  \* versions: the versions generated at them, or Absent
  kbatch,     \* peaks: the batch whose temporal patterns are computed
  kpatterns,  \* peaks: its peak hours and days, or Absent
  procs,      \* store calls in progress: per process its call, position, locals
  writes      \* the profiles written to current.json of RaceCode, in order

vars == <<now, dirs, current, history, ops, calls, archSeq, replaced, installed,
          prev, ret, vold, vp, vres, sprofile, sargs, sscores,
          uorig, uprofile, uheld, ulabelled, ucalls, tprofile, tdict, tback,
          gdates, gversions, kbatch, kpatterns, procs, writes>>
storeVars == <<dirs, current, history, ops, calls, archSeq, replaced, installed,
               prev, ret>>
validatorVars == <<vold, vp, vres>>
scoreVars == <<sprofile, sargs, sscores>>
updateVars == <<uorig, uprofile, uheld, ulabelled, ucalls>>
tripVars == <<tprofile, tdict, tback>>
genVars == <<gdates, gversions, kbatch, kpatterns>>
profilerVars == <<scoreVars, updateVars, tripVars, genVars>>
raceVars == <<procs, writes>>

NoFiles == [k \in {} |-> Absent]

Profile(code, version, median) ==
  [BaseProfile EXCEPT !.corridor_code = code, !.version = version,
                      !.median_amount = median]

\* the profiles callers hand to save_profile
SaveArgs ==
  {Profile("UK_NGN", v, 350) : v \in Versions}
    \cup {Profile("UK_NGN", 1, 0), Profile("UK_PLN", 1, 350)}

\* datetime.now().strftime('%Y%m%d_%H%M%S'): the whole seconds of the instant
Strftime(t) == t \div TicksPerSecond

\* f"{version}_{timestamp}": the stem of a history file
HistoryStem(data, t) == <<data.metadata.version, Strftime(t)>>

\* string order of two stems: by version, then by timestamp
StemLess(a, b) == a[1] < b[1] \/ (a[1] = b[1] /\ a[2] < b[2])

RECURSIVE SortedDesc(_)
SortedDesc(S) ==
  IF S = {} THEN <<>>
  ELSE LET top == CHOOSE x \in S : \A y \in S \ {x} : StemLess(y, x)
       IN <<top>> \o SortedDesc(S \ {top})

\* Python's seq[:n]
PySlice(seq, n) ==
  IF n >= 0 THEN SubSeq(seq, 1, Min(n, Len(seq)))
  ELSE SubSeq(seq, 1, Max(0, Len(seq) + n))

\* Python's seq[i], 0-based, negative from the end; Raised when out of range
PyIndex(seq, i) ==
  IF i >= 0 /\ i < Len(seq) THEN seq[i + 1]
  ELSE IF i < 0 /\ -i <= Len(seq) THEN seq[Len(seq) + i + 1]
  ELSE Raised

\* a store that keeps every corridor in the directory of one
corridor_path_shared(corridor_code) == "UK_NGN"

\* base_path / corridor_code: the directory of a corridor, named by its code
corridor_path(corridor_code) == corridor_code

\* an archive step that writes no history file
archive_current_skipped(files, data, t) == files

\* the history files after _archive_current wrote `data` at instant t
archive_current(files, data, t) == (HistoryStem(data, t) :> data) @@ files

get_current_profile(cur) == IF cur = Absent THEN Absent ELSE from_dict(cur)

\* the history files get_profile_history reads: stems sorted in reverse, cut
history_files(files, n_versions) ==
  PySlice(SortedDesc(DOMAIN files), n_versions)

get_profile_history(files, n_versions) ==
  LET stems == history_files(files, n_versions)
  IN [i \in 1..Len(stems) |-> from_dict(files[stems[i]])]

\* a save that writes current.json only when there is none yet
written_current_once(cur, profile) ==
  IF cur # Absent THEN cur ELSE to_dict(profile)

\* the file current.json after save_profile(profile) found `cur` there
written_current(cur, profile) == to_dict(profile)

\* a guard that is off by one
enough_history_lax(hist, steps) == ~(Len(hist) + 1 < steps)

\* rollback's guard: enough versions to go back `steps`
enough_history(hist, steps) == ~(Len(hist) < steps)

\* a target taken one position too far back
rollback_target_next(hist, steps) == PyIndex(hist, steps)

rollback_target(hist, steps) == PyIndex(hist, steps - 1)

HISTORY_DIR == "history"

\* the corridor codes of the model in the order of Python's str
CodeOrder == <<"UK_NGN", "UK_PLN", "UK_XXX", "history">>

CodeRank(code) == CHOOSE i \in 1..Len(CodeOrder) : CodeOrder[i] = code

\* sorted(codes)
RECURSIVE SortedCodes(_)
SortedCodes(codes) ==
  IF codes = {} THEN <<>>
  ELSE LET least == CHOOSE c \in codes :
                      \A d \in codes : CodeRank(c) <= CodeRank(d)
       IN <<least>> \o SortedCodes(codes \ {least})

\* a listing that names every corridor directory, with or without a profile
list_corridors_dirs(ds, cur) == SortedCodes({c \in ds : c # HISTORY_DIR})

\* the directories of base_path other than history/ that hold a current.json;
\* ds are the directories _corridor_path made, history/ is there from the start
list_corridors(ds, cur) ==
  SortedCodes({c \in ds \cup {HISTORY_DIR} :
                 c # HISTORY_DIR /\ cur[c] # Absent})

get_profile_metadata(cur) ==
  LET profile == get_current_profile(cur)
  IN IF profile = Absent THEN Absent
     ELSE [corridor_code |-> profile.corridor_code,
           version |-> profile.version,
           profile_date |-> profile.profile_date,
           transaction_count |-> profile.transaction_count,
           baseline_fraud_rate |-> profile.baseline_fraud_rate]

Call(op, corridor_code, steps, profile, value) ==
  [op |-> op, corridor |-> corridor_code, steps |-> steps, profile |-> profile,
   value |-> value]

\* save_profile: archive the current file if there is one, write the new one
save_profile(profile, call) ==
  LET c == corridor_path(profile.corridor_code)
      cur == current[c]
      archives == cur # Absent
  IN /\ dirs' = dirs \cup {c}
     /\ history' = [history EXCEPT ![c] =
                      IF archives THEN archive_current(@, cur, now) ELSE @]
     /\ current' = [current EXCEPT ![c] = written_current(cur, profile)]
     /\ archSeq' = [archSeq EXCEPT ![c] =
                      IF archives THEN (HistoryStem(cur, now) :> ops + 1) @@ @
                      ELSE @]
     /\ replaced' = [replaced EXCEPT ![c] =
                       IF archives THEN @ \cup {installed[c]} ELSE @]
     /\ prev' = [prev EXCEPT ![c] = installed[c]]
     /\ installed' = [installed EXCEPT ![c] = profile]
     /\ calls' = [calls EXCEPT ![call.corridor] = Append(@, call)]
     /\ ops' = ops + 1
     /\ ret' = call

Save(profile) ==
  /\ ops < MaxOps
  /\ save_profile(profile, Call("save", profile.corridor_code, 0, profile,
                                profile.version))
  /\ UNCHANGED <<now, validatorVars, profilerVars,
                 raceVars>>

Rollback(corridor_code, steps) ==
  LET path == corridor_path(corridor_code)
      hist == get_profile_history(history[path], steps + 1)
      target_profile == rollback_target(hist, steps)
  IN /\ ops < MaxOps
     /\ IF ~enough_history(hist, steps)
        THEN \* logs the error and returns None
             /\ dirs' = dirs \cup {path}
             /\ calls' = [calls EXCEPT ![corridor_code] =
                  Append(@, Call("rollback", corridor_code, steps, Absent, Absent))]
             /\ ops' = ops + 1
             /\ ret' = Call("rollback", corridor_code, steps, Absent, Absent)
             /\ UNCHANGED <<current, history, archSeq, replaced, installed, prev>>
        ELSE IF target_profile = Raised
        THEN \* history[steps - 1] raises IndexError
             /\ dirs' = dirs \cup {path}
             /\ calls' = [calls EXCEPT ![corridor_code] =
                  Append(@, Call("rollback", corridor_code, steps, Absent, Raised))]
             /\ ops' = ops + 1
             /\ ret' = Call("rollback", corridor_code, steps, Absent, Raised)
             /\ UNCHANGED <<current, history, archSeq, replaced, installed, prev>>
        ELSE save_profile(target_profile,
                          Call("rollback", corridor_code, steps, Absent,
                               target_profile))
     /\ UNCHANGED <<now, validatorVars, profilerVars,
                 raceVars>>

Tick ==
  /\ now < MaxTime
  /\ now' = now + 1
  /\ UNCHANGED <<storeVars, validatorVars, profilerVars,
                 raceVars>>

NoCall == Call("none", "", 0, Absent, Absent)

NoProcs == [p \in {} |-> Absent]

\* no call is in progress
RaceIdle == procs = NoProcs /\ writes = <<>>

\* the parts of the state a specification does not exercise
StoreIdle ==
  /\ now = 0
  /\ dirs = {}
  /\ current = [c \in Corridors |-> Absent]
  /\ history = [c \in Corridors |-> NoFiles]
  /\ ops = 0
  /\ calls = [c \in Corridors |-> <<>>]
  /\ archSeq = [c \in Corridors |-> NoFiles]
  /\ replaced = [c \in Corridors |-> {}]
  /\ installed = [c \in Corridors |-> Absent]
  /\ prev = [c \in Corridors |-> Absent]
  /\ ret = NoCall
  /\ RaceIdle

ValidatorIdle == vold = Absent /\ vp = Absent /\ vres = Absent

ScoreIdle == sprofile = Absent /\ sargs = Absent /\ sscores = Absent

UpdateIdle ==
  /\ uorig = Absent /\ uprofile = Absent /\ uheld = Absent
  /\ ulabelled = FALSE /\ ucalls = <<>>

TripIdle == tprofile = Absent /\ tdict = Absent /\ tback = Absent

GenIdle ==
  /\ gdates = Absent /\ gversions = Absent
  /\ kbatch = Absent /\ kpatterns = Absent

ProfilerIdle == ScoreIdle /\ UpdateIdle /\ TripIdle /\ GenIdle

Init ==
  /\ StoreIdle
  /\ ValidatorIdle
  /\ ProfilerIdle

Next ==
  \/ Tick
  \/ \E profile \in SaveArgs : Save(profile)
  \/ \E c \in Corridors, steps \in StepsArgs : Rollback(c, steps)

Spec == Init /\ [][Next]_vars

\* -------------------------------------------------------------- store lookups
\* the corridor codes of the lookups: one is the name of the history directory
StoreCodes == {"UK_NGN", "UK_XXX", HISTORY_DIR}

\* the profiles saved here; none has the code UK_XXX
LookupSaveArgs ==
  {Profile("UK_NGN", v, 350) : v \in Versions}
    \cup {Profile(HISTORY_DIR, 1, 350)}

\* n_versions of get_profile_history: one, and the default
HistoryLimits == {1, 10}

\* a lookup: _corridor_path makes the directories, nothing else is written
Lookup(call) ==
  /\ ops < MaxOps
  /\ dirs' = dirs \cup {corridor_path(call.corridor)}
  /\ ops' = ops + 1
  /\ ret' = call
  /\ UNCHANGED <<now, current, history, calls, archSeq, replaced, installed,
                 prev, validatorVars, profilerVars,
                 raceVars>>

GetCurrent(corridor_code) ==
  Lookup(Call("get_current", corridor_code, 0, Absent,
              get_current_profile(current[corridor_path(corridor_code)])))

GetHistory(corridor_code, n_versions) ==
  Lookup(Call("get_history", corridor_code, n_versions, Absent,
              [profiles |->
                 get_profile_history(history[corridor_path(corridor_code)],
                                     n_versions)]))

GetMetadata(corridor_code) ==
  Lookup(Call("get_metadata", corridor_code, 0, Absent,
              get_profile_metadata(current[corridor_path(corridor_code)])))

ListCorridors ==
  /\ ops < MaxOps
  /\ ops' = ops + 1
  /\ ret' = Call("list_corridors", "", 0, Absent,
                 [codes |-> list_corridors(dirs, current)])
  /\ UNCHANGED <<now, dirs, current, history, calls, archSeq, replaced,
                 installed, prev, validatorVars, profilerVars,
                 raceVars>>

InitLookup ==
  /\ now = 0
  /\ dirs = {}
  /\ current = [c \in StoreCodes |-> Absent]
  /\ history = [c \in StoreCodes |-> NoFiles]
  /\ ops = 0
  /\ calls = [c \in StoreCodes |-> <<>>]
  /\ archSeq = [c \in StoreCodes |-> NoFiles]
  /\ replaced = [c \in StoreCodes |-> {}]
  /\ installed = [c \in StoreCodes |-> Absent]
  /\ prev = [c \in StoreCodes |-> Absent]
  /\ ret = NoCall
  /\ RaceIdle
  /\ ValidatorIdle
  /\ ProfilerIdle

NextLookup ==
  \/ \E profile \in LookupSaveArgs : Save(profile)
  \/ \E c \in StoreCodes : Rollback(c, 1)
  \/ \E c \in StoreCodes : GetCurrent(c)
  \/ \E c \in StoreCodes, n_versions \in HistoryLimits : GetHistory(c, n_versions)
  \/ \E c \in StoreCodes : GetMetadata(c)
  \/ ListCorridors

SpecLookup == InitLookup /\ [][NextLookup]_vars

\* ----------------------------------------------- store calls, step by step
\* save_profile and rollback as the file operations they are made of, run by
\* processes that share the directory of one corridor. A step is one file
\* system call or one read or write of a whole file; the code has no lock.
RaceCode == "UK_NGN"

\* a file that was opened for writing and not written yet
Partial == [partial |-> TRUE]

\* the profile that is current before the calls, and the history entry there
BeforeProfile == Profile(RaceCode, 1, 350)
BeforeHistory == Profile(RaceCode, 1, 100)
\* archived one second before the clock of the model starts
BeforeStem == <<1, -1>>

\* the profile process p saves
FreshProfile(p) == Profile(RaceCode, 2, 400 + p)

NoStem == <<0, 0>>

Proc(op, profile, steps, pc) ==
  [op |-> op, profile |-> profile, steps |-> steps, pc |-> pc,
   data |-> Absent, stem |-> NoStem, files |-> <<>>, loaded |-> <<>>]

\* the calls process p can make: save_profile(profile), rollback(code, steps)
CallsOf(p) ==
  {Proc("save", FreshProfile(p), 0, "exists")}
    \cup {Proc("rollback", Absent, steps, "glob") : steps \in StepsArgs}

\* an archive that writes what current.json holds when the file is written
archived_data_reread(current_data, cur) == cur

\* json.dump(current_data, f): the archive holds the data loaded before
archived_data(current_data, cur) == current_data

At(p, pc) == p \in DOMAIN procs /\ procs[p].pc = pc

StepFrame ==
  UNCHANGED <<now, dirs, ops, calls, archSeq, replaced, installed, prev, ret,
              validatorVars, profilerVars>>

\* save_profile: current_file.exists(), and the same test in _archive_current
\* (no call deletes a file, so the second test repeats the first)
Exists(p) ==
  /\ At(p, "exists")
  /\ procs' = [procs EXCEPT ![p].pc =
                 IF current[corridor_path(RaceCode)] # Absent
                 THEN "load_current" ELSE "open_current"]
  /\ UNCHANGED <<current, history, writes>>
  /\ StepFrame

\* _archive_current: json.load of current.json; an empty file raises
LoadCurrent(p) ==
  /\ At(p, "load_current")
  /\ LET cur == current[corridor_path(RaceCode)]
     IN procs' = IF cur = Partial
                 THEN [procs EXCEPT ![p].pc = "raised"]
                 ELSE [procs EXCEPT ![p].data = cur, ![p].pc = "open_history"]
  /\ UNCHANGED <<current, history, writes>>
  /\ StepFrame

\* _archive_current: the name from version and clock, open(history_file, 'w')
OpenHistory(p) ==
  /\ At(p, "open_history")
  /\ LET stem == HistoryStem(procs[p].data, now)
     IN /\ procs' = [procs EXCEPT ![p].stem = stem, ![p].pc = "dump_history"]
        /\ history' = [history EXCEPT ![corridor_path(RaceCode)] =
                         (stem :> Partial) @@ @]
  /\ UNCHANGED <<current, writes>>
  /\ StepFrame

\* _archive_current: json.dump(current_data, f) and the close of the file
DumpHistory(p) ==
  /\ At(p, "dump_history")
  /\ history' = [history EXCEPT ![corridor_path(RaceCode)] =
                   (procs[p].stem :>
                      archived_data(procs[p].data,
                                    current[corridor_path(RaceCode)])) @@ @]
  /\ procs' = [procs EXCEPT ![p].pc = "open_current"]
  /\ UNCHANGED <<current, writes>>
  /\ StepFrame

\* save_profile: open(current_file, 'w') empties current.json
OpenCurrent(p) ==
  /\ At(p, "open_current")
  /\ current' = [current EXCEPT ![corridor_path(RaceCode)] = Partial]
  /\ procs' = [procs EXCEPT ![p].pc = "dump_current"]
  /\ UNCHANGED <<history, writes>>
  /\ StepFrame

\* save_profile: json.dump(profile_dict, f) and the close of the file
DumpCurrent(p) ==
  /\ At(p, "dump_current")
  /\ current' = [current EXCEPT ![corridor_path(RaceCode)] =
                   written_current(@, procs[p].profile)]
  /\ writes' = Append(writes, procs[p].profile)
  /\ procs' = [procs EXCEPT ![p].pc = "returned"]
  /\ UNCHANGED history
  /\ StepFrame

\* get_profile_history: the names of the history files, newest first, cut
Glob(p) ==
  /\ At(p, "glob")
  /\ procs' = [procs EXCEPT
                 ![p].files = history_files(history[corridor_path(RaceCode)],
                                            procs[p].steps + 1),
                 ![p].pc = "load_history"]
  /\ UNCHANGED <<current, history, writes>>
  /\ StepFrame

\* get_profile_history: json.load of the next history file; an empty file
\* raises
LoadHistory(p) ==
  /\ At(p, "load_history")
  /\ Len(procs[p].loaded) < Len(procs[p].files)
  /\ LET stem == procs[p].files[Len(procs[p].loaded) + 1]
         data == history[corridor_path(RaceCode)][stem]
     IN procs' = IF data = Partial
                 THEN [procs EXCEPT ![p].pc = "raised"]
                 ELSE [procs EXCEPT ![p].loaded = Append(@, from_dict(data))]
  /\ UNCHANGED <<current, history, writes>>
  /\ StepFrame

\* rollback: the guard on the number of versions, the choice of the target
\* and the call of save_profile
Select(p) ==
  /\ At(p, "load_history")
  /\ Len(procs[p].loaded) = Len(procs[p].files)
  /\ LET hist == procs[p].loaded
         target_profile == rollback_target(hist, procs[p].steps)
     IN procs' = IF ~enough_history(hist, procs[p].steps)
                 THEN [procs EXCEPT ![p].pc = "returned"]
                 ELSE IF target_profile = Raised
                 THEN [procs EXCEPT ![p].pc = "raised"]
                 ELSE [procs EXCEPT ![p].profile = target_profile,
                                    ![p].pc = "exists"]
  /\ UNCHANGED <<current, history, writes>>
  /\ StepFrame

\* the store as the calls of the processes `ids` begin
InitSteps(ids) ==
  /\ now = 0
  /\ dirs = {RaceCode}
  /\ \E before \in {Absent, to_dict(BeforeProfile)} :
       /\ current = [c \in Corridors |-> IF c = RaceCode THEN before ELSE Absent]
       /\ writes = IF before = Absent THEN <<>> ELSE <<BeforeProfile>>
  /\ history = [c \in Corridors |->
                  IF c = RaceCode THEN (BeforeStem :> to_dict(BeforeHistory))
                  ELSE NoFiles]
  /\ ops = 0
  /\ calls = [c \in Corridors |-> <<>>]
  /\ archSeq = [c \in Corridors |-> NoFiles]
  /\ replaced = [c \in Corridors |-> {}]
  /\ installed = [c \in Corridors |-> Absent]
  /\ prev = [c \in Corridors |-> Absent]
  /\ ret = NoCall
  /\ procs \in {f \in [ids -> UNION {CallsOf(p) : p \in ids}] :
                   \A p \in ids : f[p] \in CallsOf(p)}
  /\ ValidatorIdle
  /\ ProfilerIdle

NextSteps ==
  \/ Tick
  \/ \E p \in DOMAIN procs : Exists(p)
  \/ \E p \in DOMAIN procs : LoadCurrent(p)
  \/ \E p \in DOMAIN procs : OpenHistory(p)
  \/ \E p \in DOMAIN procs : DumpHistory(p)
  \/ \E p \in DOMAIN procs : OpenCurrent(p)
  \/ \E p \in DOMAIN procs : DumpCurrent(p)
  \/ \E p \in DOMAIN procs : Glob(p)
  \/ \E p \in DOMAIN procs : LoadHistory(p)
  \/ \E p \in DOMAIN procs : Select(p)

\* one call, observed after each of its steps
InitOneCall == InitSteps({1})
SpecOneCall == InitOneCall /\ [][NextSteps]_vars

\* two calls by independent processes
InitRace == InitSteps({1, 2})
SpecRace == InitRace /\ [][NextSteps]_vars

\* ------------------------------------------------- validation of one profile
AmountValues == 0..MaxAmount
VelocityValues == 0..MaxVelocity
AmountFields == {"min", "p25", "median", "p75", "p95", "p99", "max"}

\* a profile with the given amount and velocity statistics
StatsProfile(a, vmedian, vp95) ==
  [BaseProfile EXCEPT
     !.min_amount = a["min"], !.p25_amount = a["p25"],
     !.median_amount = a["median"], !.p75_amount = a["p75"],
     !.p95_amount = a["p95"], !.p99_amount = a["p99"], !.max_amount = a["max"],
     !.median_velocity_24h = vmedian, !.p95_velocity_24h = vp95]

InitValidate ==
  /\ StoreIdle
  /\ ProfilerIdle
  /\ vold = Absent
  /\ \E a \in [AmountFields -> AmountValues],
        vmedian \in VelocityValues, vp95 \in VelocityValues :
       vp = StatsProfile(a, vmedian, vp95)
  /\ vres = Absent

Validate ==
  /\ vres = Absent
  /\ vres' = validate_profile(vp)
  /\ UNCHANGED <<now, storeVars, vold, vp, profilerVars, raceVars>>

NextValidate == Validate

SpecValidate == InitValidate /\ [][NextValidate]_vars

\* ------------------------------------------------- validation of an update
\* values of the four metrics the drift check reads: zero, pairs below, at and
\* above a quarter of the old value (4 -> 5 and 4 -> 3 are 25% exactly)
DriftMedians == {0, 350, 365, 500}
DriftP95s == {0, 400, 600}
DriftVelocities == {0, 3, 4}
DriftFraudRates == {0, 4, 5, 8}

DriftProfile(code, median, p95, velocity, fraud_rate) ==
  [BaseProfile EXCEPT
     !.corridor_code = code, !.median_amount = median, !.p95_amount = p95,
     !.median_velocity_24h = velocity, !.baseline_fraud_rate = fraud_rate]

InitValidateUpdate ==
  /\ StoreIdle
  /\ ProfilerIdle
  /\ \E code \in Corridors, median \in DriftMedians, p95 \in DriftP95s,
        velocity \in DriftVelocities, fraud_rate \in DriftFraudRates :
       vold = DriftProfile(code, median, p95, velocity, fraud_rate)
  /\ \E median \in DriftMedians, p95 \in DriftP95s,
        velocity \in DriftVelocities, fraud_rate \in DriftFraudRates :
       vp = DriftProfile("UK_NGN", median, p95, velocity, fraud_rate)
  /\ vres = Absent

ValidateUpdate ==
  /\ vres = Absent
  /\ vres' = validate_update(vold, vp)
  /\ UNCHANGED <<now, storeVars, vold, vp, profilerVars, raceVars>>

NextValidateUpdate == ValidateUpdate

SpecValidateUpdate == InitValidateUpdate /\ [][NextValidateUpdate]_vars

\* ------------------------------------------------------------ store properties
CountOf(files) == Cardinality(DOMAIN files)
AllOf(files) == get_profile_history(files, CountOf(files))
InFiles(files, profile) ==
  \E i \in 1..Len(AllOf(files)) : AllOf(files)[i] = profile
HistoryCount(c) == CountOf(history[c])
InHistory(c, profile) == InFiles(history[c], profile)
IsSave(call) == call.op = "save"
IsRollback(call) == call.op = "rollback"
Succeeded(call) == IsRollback(call) /\ call.value # Absent /\ call.value # Raised
Installs(call) == IsSave(call) \/ Succeeded(call)
InstalledBy(call) == IF IsSave(call) THEN call.profile ELSE call.value
HasSave(c) == \E i \in 1..Len(calls[c]) : IsSave(calls[c][i])
LastInstall(c) ==
  LET idx == {i \in 1..Len(calls[c]) : Installs(calls[c][i])}
      last == CHOOSE i \in idx : \A j \in idx : j <= i
  IN InstalledBy(calls[c][last])

\* C1: once a save completed on a corridor, getCurrent is never absent for it
\* and returns the argument of the most recent save or the profile selected by
\* the most recent successful rollback, whichever came later.
C1_CurrentIsLastInstalled ==
  \A c \in Corridors :
    HasSave(c) =>
      /\ get_current_profile(current[c]) # Absent
      /\ get_current_profile(current[c]) = LastInstall(c)

\* a rollback was the last install on a corridor and changed its current profile
C1_Witness ==
  \E c \in Corridors :
    /\ Len(calls[c]) >= 3
    /\ Succeeded(calls[c][Len(calls[c])])
    /\ IsSave(calls[c][Len(calls[c]) - 1])
    /\ calls[c][Len(calls[c]) - 1].profile # get_current_profile(current[c])

\* C2: history is append-only: every profile that was current and was then
\* replaced is retrievable from the corridor's history.
C2_ReplacedProfilesRetrievable ==
  \A c \in Corridors : \A profile \in replaced[c] : InHistory(c, profile)

\* C3: getHistory(corridor, limit) returns min(limit, entries) profiles, most
\* recently archived first.
C3_HistoryMostRecentFirst ==
  \A c \in Corridors : \A limit \in 0..MaxOps :
    LET stems == history_files(history[c], limit)
    IN /\ Len(get_profile_history(history[c], limit)) = Min(limit, HistoryCount(c))
       /\ \A i \in 1..Len(stems) : \A j \in 1..Len(stems) :
            i < j => archSeq[c][stems[i]] > archSeq[c][stems[j]]

SaveSaveRollback(c) ==
  /\ Len(calls[c]) = 3
  /\ IsSave(calls[c][1])
  /\ IsSave(calls[c][2])
  /\ IsRollback(calls[c][3])
  /\ calls[c][3].steps = 1

\* C4: on a fresh corridor, save(A), save(B), rollback(steps=1) returns A;
\* afterwards getCurrent returns A and the history contains B.
C4_RollbackAfterTwoSaves ==
  \A c \in Corridors :
    SaveSaveRollback(c) =>
      /\ calls[c][3].value = calls[c][1].profile
      /\ get_current_profile(current[c]) = calls[c][1].profile
      /\ InHistory(c, calls[c][2].profile)

\* the scenario with two different profiles of one version
C4_Witness ==
  \E c \in Corridors :
    /\ SaveSaveRollback(c)
    /\ calls[c][1].profile # calls[c][2].profile
    /\ calls[c][1].profile.version = calls[c][2].profile.version

\* a step that is a rollback call on corridor c
RollbackStep(c) ==
  ops' = ops + 1 /\ IsRollback(ret') /\ ret'.corridor = c

\* C5: with at least one history entry, rollback(corridor, steps=1) makes
\* current the profile that was current immediately before the present current
\* profile was installed.
C5_RollbackRestoresPrevious ==
  [][\A c \in Corridors :
       (RollbackStep(c) /\ ret'.steps = 1 /\ HistoryCount(c) >= 1) =>
         get_current_profile(current'[c]) = prev[c]]_vars

C7_RollbackInstallsSelected ==
  [][/\ \A c \in Corridors : CountOf(history'[c]) >= CountOf(history[c])
     /\ \A c \in Corridors :
          (RollbackStep(c) /\ Succeeded(ret') /\ ret'.steps >= 1) =>
            /\ ret'.value = AllOf(history[c])[ret'.steps]
            /\ get_current_profile(current'[c]) = AllOf(history[c])[ret'.steps]
            /\ current[c] # Absent
            /\ InFiles(history'[c], get_current_profile(current[c]))]_vars

\* a rollback by two steps succeeded and installed a profile other than the
\* most recent history entry
C7_Witness ==
  /\ Succeeded(ret)
  /\ ret.steps = 2
  /\ HistoryCount(ret.corridor) >= 2
  /\ get_current_profile(current[ret.corridor]) = ret.value
  /\ \E i \in 1..Len(AllOf(history[ret.corridor])) :
       AllOf(history[ret.corridor])[i] # ret.value

RepeatedSaves(c) ==
  /\ Len(calls[c]) >= 1
  /\ \A i \in 1..Len(calls[c]) :
       IsSave(calls[c][i]) /\ calls[c][i].profile = calls[c][1].profile

\* C8: saving the same profile repeatedly leaves getCurrent equal to it, and
\* every save made while a current profile exists adds exactly one history
\* entry.
C8_RepeatedSaveGrowsHistory ==
  \A c \in Corridors :
    RepeatedSaves(c) =>
      /\ get_current_profile(current[c]) = calls[c][1].profile
      /\ HistoryCount(c) = Len(calls[c]) - 1

AllSavesValidated ==
  \A c \in Corridors : \A i \in 1..Len(calls[c]) :
    IsSave(calls[c][i]) => validate_profile(calls[c][i].profile).is_valid

CurrentProfilesValid ==
  \A c \in Corridors :
    current[c] # Absent =>
      Len(validate_profile(get_current_profile(current[c])).errors) = 0

\* C9 as stated: a profile for which validateProfile reports errors never
\* becomes the current profile of a corridor through save or rollback.
C9_StoreGatesOnValidation == CurrentProfilesValid

\* C9 amended: the store itself does not validate; when every profile a caller
\* passed to save had no validateProfile errors, no profile with errors is
\* current, after saves and rollbacks alike.
C9_ValidatedSavesStayValid == AllSavesValidated => CurrentProfilesValid

\* validated saves followed by a successful rollback
C9_Witness ==
  /\ AllSavesValidated
  /\ Succeeded(ret)
  /\ current[ret.corridor] # Absent
  /\ HistoryCount(ret.corridor) >= 2

\* -------------------------------------------------------- validator properties
ChainViolated(profile) ==
  \/ profile.min_amount > profile.p25_amount
  \/ profile.p25_amount > profile.median_amount
  \/ profile.median_amount > profile.p75_amount
  \/ profile.p75_amount > profile.p95_amount
  \/ profile.p95_amount > profile.p99_amount
  \/ profile.p99_amount > profile.max_amount
  \/ profile.median_velocity_24h > profile.p95_velocity_24h

\* C10: if any link of min <= p25 <= median <= p75 <= p95 <= p99 <= max is
\* violated, or velocity median > velocity p95, validateProfile returns a
\* non-empty errors list.
C10_ChainViolationIsError ==
  (vres # Absent /\ ChainViolated(vp)) =>
    (Len(vres.errors) > 0 /\ ~vres.is_valid)

\* ------------------------------------------------------------------ scoring
ScoreAmounts == -1..MaxScoreAmount
Features == {"amount", "velocity", "device"}

ScoreProfile(median, p95, p99) ==
  [BaseProfile EXCEPT
     !.median_amount = median, !.p95_amount = p95, !.p99_amount = p99,
     !.median_velocity_24h = median, !.p95_velocity_24h = p95]

\* the UK_NGN profile and the amounts of tests/test_dynamic_weights.py
TestProfile == ScoreProfile(350, 2500, 5000)
TestAmounts == {0, 350, 2500, 5000, 10000}

ScoreArgs(feature, low, high) == [feature |-> feature, low |-> low, high |-> high]

InitScore ==
  /\ StoreIdle
  /\ ValidatorIdle
  /\ GenIdle
  /\ UpdateIdle
  /\ TripIdle
  /\ \/ /\ \E median \in ScoreAmounts, p95 \in ScoreAmounts, p99 \in ScoreAmounts :
            sprofile = ScoreProfile(median, p95, p99)
        /\ \E feature \in Features, low \in ScoreAmounts, high \in ScoreAmounts :
            low <= high /\ sargs = ScoreArgs(feature, low, high)
     \/ /\ sprofile = TestProfile
        /\ \E feature \in Features, low \in TestAmounts, high \in TestAmounts :
            low <= high /\ sargs = ScoreArgs(feature, low, high)
  /\ sscores = Absent

Score ==
  /\ sscores = Absent
  /\ sscores' =
       [low |-> calculate_normalised_score(sargs.low, sprofile, sargs.feature),
        high |-> calculate_normalised_score(sargs.high, sprofile, sargs.feature)]
  /\ UNCHANGED <<now, storeVars, raceVars, genVars, validatorVars,
                 sprofile, sargs, updateVars,
                 tripVars>>

NextScore == Score

SpecScore == InitScore /\ [][NextScore]_vars

\* scoring against profiles whose amounts and velocities vary independently
\* and whose other statistics agree with them, as the validator requires
VelocityProfile(median, p95, p99, vmedian, vp95) ==
  [BaseProfile EXCEPT
     !.min_amount = median, !.p25_amount = median, !.median_amount = median,
     !.p75_amount = median, !.p95_amount = p95, !.p99_amount = p99,
     !.max_amount = p99,
     !.median_velocity_24h = vmedian, !.mean_velocity_24h = vmedian,
     !.p95_velocity_24h = vp95]

ScoreValues == 0..MaxScoreAmount
ScoreVelocities == 0..MaxVelocity

InitScoreProfiles ==
  /\ StoreIdle
  /\ ValidatorIdle
  /\ GenIdle
  /\ UpdateIdle
  /\ TripIdle
  /\ \E median \in ScoreValues, p95 \in ScoreValues, p99 \in ScoreValues,
        vmedian \in ScoreVelocities, vp95 \in ScoreVelocities :
       sprofile = VelocityProfile(median, p95, p99, vmedian, vp95)
  /\ \E feature \in Features, low \in ScoreValues, high \in ScoreValues :
       low <= high /\ sargs = ScoreArgs(feature, low, high)
  /\ sscores = Absent

SpecScoreProfiles == InitScoreProfiles /\ [][NextScore]_vars

\* ------------------------------------------------------------ weekly updates
Row(amount, sender_id, beneficiary_id, day, hour) ==
  [amount |-> amount, sender_id |-> sender_id, beneficiary_id |-> beneficiary_id,
   timestamp |-> [day |-> day, hour |-> hour]]

\* the transactions a batch is made of: a small and a large one
Rows == <<Row(50, "s1", "b1", 0, 9), Row(200, "s2", "b2", 8, 17)>>

\* batches of 1..MaxBatch transactions; the statistics do not depend on the
\* order of the rows, so each batch is listed once, small amounts first
Batches ==
  UNION {{[i \in 1..n |-> Rows[pick[i]]] :
            pick \in {f \in [1..n -> 1..Len(Rows)] :
                        \A i \in 1..(n - 1) : f[i] <= f[i + 1]}} :
         n \in 1..MaxBatch}

\* no labels, or labels that mark the first transaction as fraud
LabelsFor(batch, labelled) ==
  IF labelled THEN Labels([i \in 1..Len(batch) |-> i = 1]) ELSE NoLabels

BlendFactors == {Float(0), Rat(3, 10), Float(1)}

FloatFields ==
  {"median_amount", "mean_amount", "std_amount", "p25_amount", "p75_amount",
   "p95_amount", "p99_amount", "min_amount", "max_amount",
   "median_velocity_24h", "mean_velocity_24h", "p95_velocity_24h",
   "baseline_fraud_rate"}

BlendedFields == FloatFields \ {"min_amount", "max_amount"}

\* the profile the updates start from, its floats as fractions
OriginalProfile(code) ==
  LET p == [BaseProfile EXCEPT
              !.corridor_code = code,
              !.median_amount = 100, !.mean_amount = 100, !.std_amount = 20,
              !.p25_amount = 80, !.p75_amount = 110, !.p95_amount = 120,
              !.p99_amount = 130, !.min_amount = 60, !.max_amount = 150]
  IN [[f \in DOMAIN p |-> IF f \in FloatFields THEN Float(p[f]) ELSE p[f]]
        EXCEPT !.baseline_fraud_rate = Rat(2, 100)]

InitUpdate ==
  /\ StoreIdle
  /\ ValidatorIdle
  /\ GenIdle
  /\ ScoreIdle
  /\ TripIdle
  /\ \E code \in Corridors : uorig = OriginalProfile(code)
  /\ uprofile = uorig
  /\ uheld = Absent
  /\ ulabelled \in BOOLEAN
  /\ ucalls = <<>>

\* updated = profiler.update_profile(batch, existing, fraud_labels, blend_factor)
\* by a profiler with the default window; the caller goes on with `updated`
Update(new_transactions, fraud_labels, blend_factor) ==
  /\ Len(ucalls) < MaxUpdates
  /\ uprofile' = update_profile(new_transactions, uprofile, fraud_labels,
                                blend_factor, now, DEFAULT_WINDOW_DAYS)
  \* no statement of update_profile assigns to a field of existing_profile
  /\ uheld' = uprofile
  /\ ucalls' = Append(ucalls,
       [existing |-> uprofile, new_transactions |-> new_transactions,
        fraud_labels |-> fraud_labels, blend_factor |-> blend_factor,
        at |-> now, result |-> uprofile'])
  /\ UNCHANGED <<now, storeVars, raceVars, genVars, validatorVars,
                 scoreVars, uorig, ulabelled,
                 tripVars>>

NextUpdate ==
  \E new_transactions \in Batches, blend_factor \in BlendFactors :
    Update(new_transactions, LabelsFor(new_transactions, ulabelled),
           blend_factor)

SpecUpdate == InitUpdate /\ [][NextUpdate]_vars

\* ------------------------------------------------- updates in floating point
\* batches whose transactions all have one amount: every statistic of such a
\* batch is a float that is computed without rounding
SameAmountRows == <<Row(3, "s1", "b1", 0, 9), Row(5, "s2", "b2", 8, 17)>>

SameAmountBatches ==
  {[i \in 1..n |-> SameAmountRows[k]] :
     n \in 1..MaxBatch, k \in 1..Len(SameAmountRows)}

\* the floats 0.0, 0.3 and 1.0
FloatBlendFactors == {fl(blend_factor) : blend_factor \in BlendFactors}

\* x <= y on floats: False when either is NaN
FloatLessEq(x, y) == ~IsNaN(x) /\ ~IsNaN(y) /\ ~Less(y, x)

\* the errors of validate_profile for a profile whose floats are fractions
validation_errors(profile) ==
  validate_required_fields(profile)
    \o When(FloatLessEq(profile.median_amount, Float(0)),
            "Median amount must be positive")
    \o When(Less(profile.median_velocity_24h, Float(0)),
            "Velocity cannot be negative")
    \o When(Less(profile.baseline_fraud_rate, Float(0)),
            "Fraud rate cannot be negative")
    \o When(~(FloatLessEq(profile.p25_amount, profile.median_amount)
                /\ FloatLessEq(profile.median_amount, profile.p75_amount)),
            "Amount percentiles out of order")
    \o When(~(FloatLessEq(profile.median_amount, profile.p95_amount)
                /\ FloatLessEq(profile.p95_amount, profile.p99_amount)),
            "Upper percentiles out of order")
    \o When(Less(profile.median_amount, profile.min_amount),
            "Minimum amount exceeds median")
    \o When(Less(profile.max_amount, profile.p99_amount),
            "Maximum amount less than p99")
    \o When(Less(profile.p95_velocity_24h, profile.median_velocity_24h),
            "Median velocity exceeds p95 velocity")

\* the existing profile was generated from a batch of one amount
InitFloatUpdate ==
  /\ StoreIdle
  /\ ValidatorIdle
  /\ GenIdle
  /\ ScoreIdle
  /\ TripIdle
  /\ ulabelled \in BOOLEAN
  /\ \E code \in Corridors, batch \in SameAmountBatches :
       uorig = generate_profile(batch, code, LabelsFor(batch, ulabelled), now,
                                DEFAULT_WINDOW_DAYS)
  /\ uprofile = uorig
  /\ uheld = Absent
  /\ ucalls = <<>>

\* updated = profiler.update_profile(batch, existing, fraud_labels, blend_factor)
FloatUpdate(new_transactions, fraud_labels, blend_factor) ==
  /\ Len(ucalls) < MaxUpdates
  /\ uprofile' = float_update_profile(new_transactions, uprofile, fraud_labels,
                                      blend_factor, now, DEFAULT_WINDOW_DAYS)
  /\ uheld' = uprofile
  /\ ucalls' = Append(ucalls,
       [existing |-> uprofile, new_transactions |-> new_transactions,
        fraud_labels |-> fraud_labels, blend_factor |-> blend_factor,
        at |-> now, result |-> uprofile'])
  /\ UNCHANGED <<now, storeVars, raceVars, genVars, validatorVars,
                 scoreVars, uorig, ulabelled,
                 tripVars>>

NextFloatUpdate ==
  \E new_transactions \in SameAmountBatches,
     blend_factor \in FloatBlendFactors :
    FloatUpdate(new_transactions, LabelsFor(new_transactions, ulabelled),
                blend_factor)

SpecFloatUpdate == InitFloatUpdate /\ [][NextFloatUpdate]_vars

\* ------------------------------------------------- serialisation round trip
Instants == 0..MaxTime

\* the profiles generate_profile makes of a batch
GeneratedProfiles ==
  {generate_profile(batch, code, LabelsFor(batch, labelled), t,
                    DEFAULT_WINDOW_DAYS) :
     batch \in Batches, code \in Corridors, labelled \in BOOLEAN,
     t \in Instants}

\* the profiles one update_profile makes of the original profile
UpdatedProfiles ==
  {update_profile(batch, OriginalProfile(code), LabelsFor(batch, labelled),
                  blend_factor, t, DEFAULT_WINDOW_DAYS) :
     batch \in Batches, code \in Corridors, labelled \in BOOLEAN,
     blend_factor \in BlendFactors, t \in Instants}

InitRoundTrip ==
  /\ StoreIdle
  /\ ValidatorIdle
  /\ GenIdle
  /\ ScoreIdle
  /\ UpdateIdle
  /\ tprofile \in GeneratedProfiles \cup UpdatedProfiles
                  \cup {OriginalProfile(code) : code \in Corridors}
  /\ tdict = Absent
  /\ tback = Absent

\* data = profile.to_dict()
ToDict ==
  /\ tdict = Absent
  /\ tdict' = to_dict(tprofile)
  /\ UNCHANGED <<now, storeVars, raceVars, genVars, validatorVars,
                 scoreVars, updateVars,
                 tprofile, tback>>

\* CorridorProfile.from_dict(data)
FromDict ==
  /\ tdict # Absent
  /\ tback = Absent
  /\ tback' = from_dict(tdict)
  /\ UNCHANGED <<now, storeVars, raceVars, genVars, validatorVars,
                 scoreVars, updateVars,
                 tprofile, tdict>>

NextRoundTrip == ToDict \/ FromDict

SpecRoundTrip == InitRoundTrip /\ [][NextRoundTrip]_vars

\* ---------------------------------------------------- versions of profiles
\* the instants of generation: the days within MaxYearEdge days of a new year
Years == EpochYear..(EpochYear + MaxYears)

GenerationDates ==
  UNION {{Date(year, yday) : yday \in 1..MaxYearEdge}
           \cup {Date(year, DaysInYear(year) + 1 - back) : back \in 1..MaxYearEdge} :
         year \in Years}

InitVersions ==
  /\ StoreIdle
  /\ ValidatorIdle
  /\ ScoreIdle
  /\ UpdateIdle
  /\ TripIdle
  /\ \E t1 \in GenerationDates, t2 \in GenerationDates :
       /\ Ordinal(t1) <= Ordinal(t2)
       /\ gdates = <<t1, t2>>
  /\ gversions = Absent
  /\ kbatch = Absent
  /\ kpatterns = Absent

\* generate_profile at the two instants: the versions it stamps
GenerateVersions ==
  /\ gversions = Absent
  /\ gversions' = <<version_string(gdates[1]), version_string(gdates[2])>>
  /\ UNCHANGED <<now, storeVars, raceVars, validatorVars, scoreVars, updateVars,
                 tripVars, gdates, kbatch, kpatterns>>

NextVersions == GenerateVersions

SpecVersions == InitVersions /\ [][NextVersions]_vars

\* ---------------------------------------------------------- temporal patterns
\* transactions at two hours of a Monday, one hour of a Tuesday and of a
\* Wednesday (days 0, 1 and 9 of the model)
PeakRows ==
  <<Row(50, "s1", "b1", 0, 9), Row(50, "s1", "b1", 0, 17),
    Row(50, "s2", "b1", 1, 9), Row(50, "s2", "b2", 9, 23)>>

\* batches of 1..MaxPeakBatch of these transactions, each listed once
PeakBatches ==
  UNION {{[i \in 1..n |-> PeakRows[pick[i]]] :
            pick \in {f \in [1..n -> 1..Len(PeakRows)] :
                        \A i \in 1..(n - 1) : f[i] <= f[i + 1]}} :
         n \in 1..MaxPeakBatch}

InitPeaks ==
  /\ StoreIdle
  /\ ValidatorIdle
  /\ ScoreIdle
  /\ UpdateIdle
  /\ TripIdle
  /\ gdates = Absent
  /\ gversions = Absent
  /\ kbatch \in PeakBatches
  /\ kpatterns = Absent

TemporalPatterns ==
  /\ kpatterns = Absent
  /\ kpatterns' = calculate_temporal_patterns(kbatch)
  /\ UNCHANGED <<now, storeVars, raceVars, validatorVars, scoreVars, updateVars,
                 tripVars, gdates, gversions, kbatch>>

NextPeaks == TemporalPatterns

SpecPeaks == InitPeaks /\ [][NextPeaks]_vars

\* ----------------------------------------------------- properties of updates
Checked == vres # Absent
SameCorridor == vold.corridor_code = vp.corridor_code
CountIn(seq, x) == Cardinality({i \in 1..Len(seq) : seq[i] = x})
DriftWarnings ==
  {metrics_to_check(vold, vp)[i].warning : i \in 1..4}
DriftWarningsIn(warnings) ==
  Cardinality({i \in 1..Len(warnings) : warnings[i] \in DriftWarnings})
\* old # 0 and |new - old| / old * 100 > 25: the quotient is positive only
\* for a positive old value
StatedDrift(m) ==
  m.old_value > 0 /\ Abs(m.new_value - m.old_value) * 100 > 25 * m.old_value

\* C11: validateUpdate(old, new) is valid exactly when validateProfile(new)
\* has no errors and the corridor codes match, whatever the warnings; a
\* ValidationResult is valid exactly when its list of errors is empty.
C11_UpdateValidIffCleanAndSameCorridor ==
  Checked =>
    /\ vres.is_valid <=> (validate_profile(vp).errors = <<>> /\ SameCorridor)
    /\ vres.is_valid <=> (vres.errors = <<>>)
    /\ validate_profile(vp).is_valid <=> (validate_profile(vp).errors = <<>>)

\* an update accepted with warnings, among them a drift warning
C11_Witness ==
  /\ Checked
  /\ vres.is_valid
  /\ DriftWarningsIn(vres.warnings) > 0
  /\ Len(vres.warnings) > DriftWarningsIn(vres.warnings)

C13_MismatchShortCircuits ==
  (Checked /\ ~SameCorridor) =>
    /\ ~vres.is_valid
    /\ vres.errors = Append(validate_profile(vp).errors, "Corridor code mismatch")
    /\ CountIn(vres.errors, "Corridor code mismatch") = 1
    /\ DriftWarningsIn(vres.warnings) = 0
    /\ vres.warnings = validate_profile(vp).warnings

\* a mismatch where all four metrics drifted by more than 25%
C13_Witness ==
  /\ Checked
  /\ ~SameCorridor
  /\ \A i \in 1..4 : StatedDrift(metrics_to_check(vold, vp)[i])
  /\ validate_profile(vp).errors = <<>>

\* ----------------------------------------------------- properties of scoring
AmountScored == sscores # Absent /\ sargs.feature = "amount"
IsScore(r) == DOMAIN r = {"score"}
InUnitRange(r) == IsScore(r) /\ 0 <= r.score /\ r.score <= ScoreUnit
TopRange(r) ==
  IsScore(r) /\ 9 * (ScoreUnit \div 10) <= r.score /\ r.score <= ScoreUnit

\* C14: for any profile and values low <= high, score(low, 'amount') is at
\* most score(high, 'amount'), both lie between 0 and 1, and a value above
\* p99 scores at least 0.9 and at most 1.0.
C14_ScoreMonotoneAndBounded ==
  AmountScored =>
    /\ InUnitRange(sscores.low) /\ InUnitRange(sscores.high)
    /\ sscores.low.score <= sscores.high.score
    /\ sargs.low > sprofile.p99_amount => TopRange(sscores.low)
    /\ sargs.high > sprofile.p99_amount => TopRange(sscores.high)

\* C15: for any profile a value at or below the median scores 0, the score at
\* p95 is 0.5 and is where the upper ramp starts, the score at p99 is 0.9 and
\* is where the branch above p99 starts.
C15_NoJumpAtBoundaries ==
  AmountScored =>
    LET median == sprofile.median_amount
        p95 == sprofile.p95_amount
        p99 == sprofile.p99_amount
        v == sargs.high
        r == sscores.high
    IN /\ v <= median => r = Scored(0)
       /\ v = p95 => (r = Scored(ScoreUnit \div 2) /\ r = upper_ramp(v, p95, p99))
       /\ v = p99 => (r = Scored(9 * (ScoreUnit \div 10)) /\ r = asymptote(v, p99))

\* the median, p95 and p99 a feature is scored against, and the factor the
\* model multiplies its values by
ScoredAgainst ==
  IF sargs.feature = "amount"
  THEN [median |-> sprofile.median_amount, p95 |-> sprofile.p95_amount,
        p99 |-> sprofile.p99_amount, scale |-> 1]
  ELSE [median |-> 2 * sprofile.median_velocity_24h,
        p95 |-> 2 * sprofile.p95_velocity_24h,
        p99 |-> 3 * sprofile.p95_velocity_24h, scale |-> 2]

FeatureScored == sscores # Absent /\ sargs.feature \in {"amount", "velocity"}

Degenerate ==
  ScoredAgainst.p95 = ScoredAgainst.median \/ ScoredAgainst.p99 = ScoredAgainst.p95

ScoreOf(value) == calculate_normalised_score(value, sprofile, sargs.feature)

\* the score of a value at or below p99, where the ramps are, is a division
\* by zero
RampDividesByZero(value) ==
  /\ ScoredAgainst.scale * value <= ScoredAgainst.p99
  /\ ScoreOf(value) = ZeroDivision

\* C27 as stated: for a profile with p95 = median or p99 = p95 some value
\* reaches a division by zero in one of the linear ramps
C27_DegenerateRangeDividesByZero ==
  (FeatureScored /\ Degenerate) =>
     \E value \in ScoreAmounts : RampDividesByZero(value)

\* C27 amended: no value reaches a division by zero in a linear ramp, with a
\* degenerate range or without; a score is a division by zero only for a
\* value above a p99 of 0
C27_RampsNeverDivideByZero ==
  FeatureScored =>
    /\ \A value \in ScoreAmounts : ~RampDividesByZero(value)
    /\ \A side \in {"low", "high"} :
         sscores[side] = ZeroDivision =>
           /\ ScoredAgainst.p99 = 0
           /\ ScoredAgainst.scale * sargs[side] > 0

\* a profile with median = p95 = p99 above 0 was scored at the median and
\* above it
C27_Witness ==
  /\ FeatureScored
  /\ sargs.feature = "amount"
  /\ ScoredAgainst.median = ScoredAgainst.p95
  /\ ScoredAgainst.p95 = ScoredAgainst.p99
  /\ ScoredAgainst.p99 > 0
  /\ sargs.low = ScoredAgainst.median
  /\ sargs.high > ScoredAgainst.p99
  /\ sscores.low = Scored(0)
  /\ IsScore(sscores.high)

Accepted == validate_profile(sprofile).errors = <<>>

\* C28: for every profile without validateProfile errors, every value and
\* both features, the score is a number in [0, 1] and no division by zero
C28_ScoringTotalOnAcceptedProfiles ==
  (FeatureScored /\ Accepted) =>
     /\ InUnitRange(sscores.low)
     /\ InUnitRange(sscores.high)

\* ------------------------------------------------ properties of weekly updates
Updates == 1..Len(ucalls)
LessEq(x, y) == x = y \/ Less(x, y)
\* the smallest and the largest amount of a batch, and of what the outlier
\* filter keeps of it
BatchMin(batch) == Float(Ascending(amount_column(batch))[1])
BatchMax(batch) == Float(Ascending(amount_column(batch))[Len(batch)])
KeptMax(batch) ==
  LET kept == Ascending(filter_outliers(amount_column(batch)))
  IN Float(kept[Len(kept)])
IsLeast(x, S) == x \in S /\ \A y \in S : LessEq(x, y)
IsGreatest(x, S) == x \in S /\ \A y \in S : LessEq(y, x)
\* the fresh profile a call generated from its batch
FreshOf(call) ==
  generate_profile(call.new_transactions, call.existing.corridor_code,
                   call.fraud_labels, call.at, DEFAULT_WINDOW_DAYS)
\* the law of the blend over the blended fields of a call, with the value
\* stated for 0.3, 100 and 200; for_numbers restricts the cases of blend
\* factor 0 and 1 to old and new values that are not NaN
BlendLaw(call, stated, for_numbers) ==
  LET fresh == FreshOf(call)
  IN \A f \in BlendedFields :
       LET old == call.existing[f]
           new == fresh[f]
           blended == call.result[f]
           covered == ~for_numbers \/ (~IsNaN(old) /\ ~IsNaN(new))
       IN /\ (call.blend_factor = Rat(3, 10) /\ old = Float(100)
                 /\ new = Float(200))
               => blended = Float(stated)
          /\ (call.blend_factor = Float(0) /\ covered) => blended = old
          /\ (call.blend_factor = Float(1) /\ covered) => blended = new

\* C16 as stated: with blend factor 0.3, old 100 and new 200 the blended
\* value is 170; with blend factor 0 it is the old value and with blend
\* factor 1 the new value.
C16_BlendGives170 == \A i \in Updates : BlendLaw(ucalls[i], 170, FALSE)

\* C16 amended: with blend factor 0.3, old 100 and new 200 the blended value
\* is 130; for old and new values that are numbers, blend factor 0 gives the
\* old value and blend factor 1 the new value.
C16_BlendGives130 == \A i \in Updates : BlendLaw(ucalls[i], 130, TRUE)

\* a median of 100 blended with a batch median of 200 at 0.3, after an update
\* with blend factor 0 or 1
C16_Witness ==
  /\ Len(ucalls) = 2
  /\ ucalls[1].blend_factor \in {Float(0), Float(1)}
  /\ ucalls[2].blend_factor = Rat(3, 10)
  /\ ucalls[2].existing.median_amount = Float(100)
  /\ FreshOf(ucalls[2]).median_amount = Float(200)
  /\ ucalls[2].result.median_amount = Float(130)

\* C17 as stated: after any updates min_amount is the least of the original
\* min_amount and the smallest amount of every batch and never increases, and
\* max_amount is the greatest of the original max_amount and the largest
\* amount of every batch and never decreases.
C17_BoundsOfWholeBatches ==
  /\ IsLeast(uprofile.min_amount,
             {uorig.min_amount}
               \cup {BatchMin(ucalls[i].new_transactions) : i \in Updates})
  /\ IsGreatest(uprofile.max_amount,
                {uorig.max_amount}
                  \cup {BatchMax(ucalls[i].new_transactions) : i \in Updates})
  /\ \A i \in Updates :
       /\ LessEq(ucalls[i].result.min_amount, ucalls[i].existing.min_amount)
       /\ LessEq(ucalls[i].existing.max_amount, ucalls[i].result.max_amount)

\* C17 amended: max_amount is the greatest of the original max_amount and,
\* for every batch, the largest amount the outlier filter keeps (the amounts
\* up to the 99.5th percentile of the batch); the rest as stated.
C17_BoundsOfFilteredBatches ==
  /\ IsLeast(uprofile.min_amount,
             {uorig.min_amount}
               \cup {BatchMin(ucalls[i].new_transactions) : i \in Updates})
  /\ IsGreatest(uprofile.max_amount,
                {uorig.max_amount}
                  \cup {KeptMax(ucalls[i].new_transactions) : i \in Updates})
  /\ \A i \in Updates :
       /\ LessEq(ucalls[i].result.min_amount, ucalls[i].existing.min_amount)
       /\ LessEq(ucalls[i].existing.max_amount, ucalls[i].result.max_amount)

\* the filter dropped the largest amount of the first batch, which was above
\* the maximum and did not raise it, while its smallest amount lowered the
\* minimum; the second batch raised the maximum
C17_Witness ==
  /\ Len(ucalls) = 2
  /\ KeptMax(ucalls[1].new_transactions) # BatchMax(ucalls[1].new_transactions)
  /\ Less(uorig.max_amount, BatchMax(ucalls[1].new_transactions))
  /\ ucalls[1].result.max_amount = uorig.max_amount
  /\ Less(ucalls[1].result.min_amount, uorig.min_amount)
  /\ Less(ucalls[1].result.max_amount, ucalls[2].result.max_amount)

\* C18: after any updates transaction_count is the original count plus the
\* number of rows of all batches, whatever the blend factors.
C18_CountIsCumulative ==
  uprofile.transaction_count =
    uorig.transaction_count
      + SumSeq([i \in Updates |-> Len(ucalls[i].new_transactions)])

\* two updates with different blend factors and batches of different sizes
C18_Witness ==
  /\ Len(ucalls) = 2
  /\ ucalls[1].blend_factor # ucalls[2].blend_factor
  /\ Len(ucalls[1].new_transactions) # Len(ucalls[2].new_transactions)
  /\ uprofile.transaction_count = uorig.transaction_count + 3

\* C19: the result of an update has the corridor_code, unique_senders and
\* unique_beneficiaries of the existing profile, whatever the batch holds,
\* and the existing profile is as it was after the call.
C19_UpdateCarriesOverAndLeavesInput ==
  /\ \A i \in Updates :
       LET call == ucalls[i]
       IN /\ call.result.corridor_code = call.existing.corridor_code
          /\ call.result.unique_senders = call.existing.unique_senders
          /\ call.result.unique_beneficiaries = call.existing.unique_beneficiaries
  /\ uprofile.corridor_code = uorig.corridor_code
  /\ uprofile.unique_senders = uorig.unique_senders
  /\ uprofile.unique_beneficiaries = uorig.unique_beneficiaries
  /\ Len(ucalls) > 0 => uheld = ucalls[Len(ucalls)].existing

\* an update whose batch has two senders and two beneficiaries, on a profile
\* with other counts, that changed other fields of the result
C19_Witness ==
  /\ Len(ucalls) > 0
  /\ FreshOf(ucalls[1]).unique_senders = 2
  /\ FreshOf(ucalls[1]).unique_beneficiaries = 2
  /\ ucalls[1].existing.unique_senders # 2
  /\ ucalls[1].result # ucalls[1].existing

\* ------------------------------------------------ properties of the round trip
Groups ==
  {"amount_distribution", "velocity_distribution", "temporal_patterns",
   "population", "risk", "metadata"}

\* C20: the profile from_dict makes of to_dict's record equals the profile
\* that was serialised in every field, and to_dict's record has the groups
\* amount_distribution, velocity_distribution, temporal_patterns, population,
\* risk and metadata
C20_RoundTripReproducesProfile ==
  /\ tdict # Absent => Groups \subseteq DOMAIN tdict
  /\ tback # Absent =>
        /\ DOMAIN tback = DOMAIN tprofile
        /\ \A f \in DOMAIN tprofile : tback[f] = tprofile[f]

\* a profile made by update_profile, whose median and 95th percentile
\* differ and whose deviation is NaN, has made the round trip
C20_Witness ==
  /\ tback # Absent
  /\ tprofile \in UpdatedProfiles
  /\ tback.median_amount # tback.p95_amount
  /\ IsNaN(tback.std_amount)

\* ----------------------------------------------------- properties of lookups
IsLookup(call) == call.op \in {"get_current", "get_history", "get_metadata"}

\* a step that is a lookup on corridor c
LookupStep(c) == ops' = ops + 1 /\ IsLookup(ret') /\ ret'.corridor = c

NothingFound(call) ==
  IF call.op = "get_history" THEN call.value = [profiles |-> <<>>]
  ELSE call.value = Absent

C22_ListIsSavedCorridors ==
  list_corridors(dirs, current) = SortedCodes({c \in StoreCodes : HasSave(c)})

\* a step that is a save or a rollback
WriteStep == ops' = ops + 1 /\ (IsSave(ret') \/ IsRollback(ret'))

RaceFiles == history[corridor_path(RaceCode)]
RaceCurrent == current[corridor_path(RaceCode)]

\* a complete history file holds the profile
Readable(profile) ==
  \E stem \in DOMAIN RaceFiles : RaceFiles[stem] = to_dict(profile)

AllReturned == \A p \in DOMAIN procs : procs[p].pc = "returned"

\* every process archived the profile that was current before the calls: each
\* loaded current.json before the other wrote it
BothArchivedBefore ==
  \A p \in DOMAIN procs : procs[p].data = to_dict(BeforeProfile)

FreshProfiles == {FreshProfile(p) : p \in DOMAIN procs}

\* a profile that was written to current.json is neither current nor in history
Lost(profile) ==
  /\ \E i \in 1..Len(writes) : writes[i] = profile
  /\ RaceCurrent # to_dict(profile)
  /\ ~Readable(profile)

\* C24: two save/rollback calls on one corridor by independent processes can
\* end in an inconsistent archive/current pair: when both calls archived the
\* profile that was current before them and the first to write current.json
\* saved a new profile, that profile was installed as current and is in the
\* end neither the current profile nor in history
C24_RaceLosesInstalledProfile ==
  (AllReturned /\ BothArchivedBefore) =>
     /\ Len(writes) = 3
     /\ (writes[2] \in FreshProfiles /\ writes[2] # writes[3]) =>
          Lost(writes[2])

\* two saves have returned and the profile of one of them is lost
C24_Witness ==
  /\ DOMAIN procs = {1, 2}
  /\ AllReturned
  /\ \A p \in DOMAIN procs : procs[p].op = "save"
  /\ \E p \in DOMAIN procs : Lost(FreshProfile(p))

\* the profile that save replaces stays readable: it is the current record or
\* a complete history file
OutgoingReadable ==
  (Len(writes) >= 1 /\ writes[1] = BeforeProfile) =>
     (RaceCurrent = to_dict(BeforeProfile) \/ Readable(BeforeProfile))

\* the current record, once there, is never empty or partial
CurrentNeverPartial == Len(writes) >= 1 => RaceCurrent # Partial

\* C25: at every step of a save that replaces a current profile the outgoing
\* profile is readable from the current record or from history (its history
\* entry is complete before the current record is overwritten), and the
\* current record is never observable as empty or partial
C25_SaveNeverExposesPartialCurrent == OutgoingReadable /\ CurrentNeverPartial

\* --------------------------------------------------- properties of versions
\* C23: the version is the ISO week (YYYY-Www) of the generation instant, and
\* for two instants t1 <= t2 the version generated at t1 is lexicographically
\* <= the version generated at t2
C23_VersionsFollowTime ==
  gversions # Absent =>
    /\ \A i \in 1..2 : gversions[i][2] = isocalendar(gdates[i]).week
    /\ VersionLessEq(gversions[1], gversions[2])

\* ------------------------------------------ properties of temporal patterns
SetOf(seq) == {seq[i] : i \in 1..Len(seq)}

StrictlyAscending(seq) ==
  \A i \in 1..Len(seq) : \A j \in 1..Len(seq) : i < j => seq[i] < seq[j]

\* the periods of a bucketing that are observed in the batch
Observed(name) == KeysOf(Column(kbatch, name))

\* the number of transactions of the batch in a period
CountAt(name, period) == CountFor(Column(kbatch, name), period)

\* count > total / periods, on integers
AboveMeanCount(name, period) ==
  CountAt(name, period) * Cardinality(Observed(name)) > Len(kbatch)

PeakLaw(name, peaks) ==
  /\ StrictlyAscending(peaks)
  /\ SetOf(peaks) = {period \in Observed(name) : AboveMeanCount(name, period)}
  /\ SetOf(peaks) # Observed(name)
  /\ (\A a \in Observed(name), b \in Observed(name) :
         CountAt(name, a) = CountAt(name, b)) => peaks = <<>>

\* C26: for the hours of the day and for the days of the week of a non-empty
\* batch, the peaks are exactly the observed periods whose count is strictly
\* above the mean count over the observed periods, in ascending order; they
\* are never all the observed periods, and none when all counts are equal
C26_PeaksAreAboveMean ==
  kpatterns # Absent =>
    /\ PeakLaw("hour", kpatterns.peak_hours)
    /\ PeakLaw("day", kpatterns.peak_days)

\* a batch with a peak hour and a peak day, and an observed hour and day that
\* are no peaks
C26_Witness ==
  /\ kpatterns # Absent
  /\ kpatterns.peak_hours # <<>>
  /\ kpatterns.peak_days # <<>>
  /\ Cardinality(Observed("hour")) >= 3

\* ------------------------------------- properties of updates in floating point
NoErrors(profile) == Len(validation_errors(profile)) = 0

InUnitInterval(x) == FloatLessEq(Float(0), x) /\ FloatLessEq(x, Float(1))

\* an update of a profile without errors with a batch whose fresh profile has
\* no errors, with a blend factor in [0, 1]
ValidUpdate(call) ==
  /\ NoErrors(call.existing)
  /\ NoErrors(FreshOf(call))
  /\ InUnitInterval(call.blend_factor)

\* C29 as stated: when the existing profile and the profile generated from the
\* new batch both pass validate_profile with no errors and the blend factor
\* is in [0, 1], the profile update_profile returns passes validate_profile
\* with no errors too, after any number of successive updates.
C29_ValidityClosedUnderUpdate ==
  \A i \in Updates : ValidUpdate(ucalls[i]) => NoErrors(ucalls[i].result)
====
